---- MODULE Spec2Model ----
(***************************************************************************)
(* Model of tools/heightmap/generate_heightmap.py: the raster pipeline     *)
(* that turns vector geography into an elevation grid and a province grid. *)
(*                                                                         *)
(* Numbers.  Longitudes and latitudes are integers counting 1/DegUnit of a *)
(* degree, with DegUnit = WIDTH = 2048.  On that lattice every projector   *)
(* expression of the source is computed by binary64 without a rounding     *)
(* that could move the value across an integer: a quotient that is an      *)
(* integer is exact, and any other one lies at least 1/60 away from the    *)
(* next integer.  The model therefore computes them as exact rationals and *)
(* applies int() as truncation toward zero.                                *)
(*                                                                         *)
(* Grids.  The program's arrays are HEIGHT x WIDTH.  The model keeps the   *)
(* real dimensions and tracks the cells of a small viewport, a function    *)
(* from <<x, y>> to the cell's value; all the stages modelled here are     *)
(* computed cell by cell, so the viewport's cells hold what the program's  *)
(* array holds there.                                                      *)
(***************************************************************************)
EXTENDS Integers, Sequences, FiniteSets, TLC

\* ------------------------------------------------------------------------
\* Constants of the source
\* ------------------------------------------------------------------------
WIDTH == 2048
HEIGHT == 2048
WATER_LEVEL == 32
COAST_HEIGHT == 34
LAND_BASE == 38

\* One degree, in the model's unit of angle.
DegUnit == WIDTH

LON_MIN == (-10) * DegUnit
LON_MAX == 50 * DegUnit
LAT_MIN == 25 * DegUnit
LAT_MAX == 55 * DegUnit
LON_RANGE == LON_MAX - LON_MIN
LAT_RANGE == LAT_MAX - LAT_MIN

\* ------------------------------------------------------------------------
\* Arithmetic helpers
\* ------------------------------------------------------------------------
\* Python's int() of the rational n/d (d > 0): truncation toward zero.
TruncDiv(n, d) == IF n >= 0 THEN n \div d ELSE -((-n) \div d)

\* math.floor and math.ceil of the rational n/d (d > 0).
FloorDiv(n, d) == n \div d
CeilDiv(n, d) == -((-n) \div d)

Max(a, b) == IF a >= b THEN a ELSE b
Min(a, b) == IF a <= b THEN a ELSE b

RECURSIVE GCD(_, _)
GCD(a, b) == IF b = 0 THEN a ELSE GCD(b, a % b)

\* The rational n/d (n >= 0, d > 0) in lowest terms, as <<n, d>>.
RatNorm(n, d) == <<n \div GCD(n, d), d \div GCD(n, d)>>

\* a < b for rationals <<num, den>> with den > 0.
RatLess(a, b) == a[1] * b[2] < b[1] * a[2]

\* ------------------------------------------------------------------------
\* Fixed point
\* ------------------------------------------------------------------------
\* np.exp(-t) on the arguments t = 0, 1/16, 2/16, ...: the entry for t is
\* 64 * exp(-t) rounded to the nearest integer.  It is 0 from t = 78/16 on.
ExpTable ==
    << 64, 60, 56, 53, 50, 47, 44, 41, 39, 36, 34, 32, 30,
       28, 27, 25, 24, 22, 21, 20, 18, 17, 16, 15, 14, 13,
       13, 12, 11, 10, 10, 9, 9, 8, 8, 7, 7, 6, 6,
       6, 5, 5, 5, 4, 4, 4, 4, 3, 3, 3, 3, 3,
       2, 2, 2, 2, 2, 2, 2, 2, 2, 1, 1, 1, 1,
       1, 1, 1, 1, 1, 1, 1, 1, 1, 1, 1, 1, 1 >>

\* The value 1.0 of a Gaussian factor: the table's entry for exp(0).
FP == ExpTable[1]

\* An elevation before the final cast is an integer counting 1/ElevUnit.
ElevUnit == FP

\* exp(-num/den) for a rational num/den >= 0, the argument rounded to the
\* nearest sixteenth; a number in 0..FP counting 1/FP.
exp_neg(num, den) ==
    LET i == (2 * 16 * num + den) \div (2 * den)
    IN  IF i + 1 > Len(ExpTable) THEN 0 ELSE ExpTable[i + 1]

\* ------------------------------------------------------------------------
\* Coordinate conversion
\* ------------------------------------------------------------------------
\* lat_to_y with the row axis not inverted (row 0 at the southern edge).
lat_to_y_not_inverted(lat) == TruncDiv((lat - LAT_MIN) * HEIGHT, LAT_RANGE)

lon_to_x(lon) == TruncDiv((lon - LON_MIN) * WIDTH, LON_RANGE)

lat_to_y(lat) == TruncDiv((LAT_MAX - lat) * HEIGHT, LAT_RANGE)

lonlat_to_xy(lon, lat) == <<lon_to_x(lon), lat_to_y(lat)>>

\* x / WIDTH * LON_RANGE is a whole number of units because DegUnit = WIDTH.
x_to_lon(x) == LON_MIN + ((x * LON_RANGE) \div WIDTH)

y_to_lat(y) == LAT_MAX - ((y * LAT_RANGE) \div HEIGHT)

\* ------------------------------------------------------------------------
\* Polygon rasterization (scanline fill)
\* ------------------------------------------------------------------------
\* A polygon is a sequence of <<lon, lat>>; a pixel polygon one of <<x, y>>.
polygon_to_pixel_coords(polygon) ==
    [i \in 1..Len(polygon) |-> lonlat_to_xy(polygon[i][1], polygon[i][2])]

SeqMin(s, c) == CHOOSE m \in {s[i][c] : i \in 1..Len(s)} :
                    \A i \in 1..Len(s) : m <= s[i][c]
SeqMax(s, c) == CHOOSE m \in {s[i][c] : i \in 1..Len(s)} :
                    \A i \in 1..Len(s) : m >= s[i][c]

\* x_min taken without the clamp at column 0.
bbox_x_min_unclamped(pp) == SeqMin(pp, 1)

\* The bounding box of a pixel polygon, clamped to the grid.
bbox_y_min(pp) == Max(0, SeqMin(pp, 2))
bbox_y_max(pp) == Min(HEIGHT - 1, SeqMax(pp, 2))
bbox_x_min(pp) == Max(0, SeqMin(pp, 1))
bbox_x_max(pp) == Min(WIDTH - 1, SeqMax(pp, 1))

\* The vertex before vertex i (j = n - 1 at first, then j = i).
PrevVertex(pp, i) == IF i = 1 THEN Len(pp) ELSE i - 1

\* The edge test with both ends of the edge taken in.
EdgeCrossesClosed(pp, i, y) ==
    LET yi == pp[i][2]
        yj == pp[PrevVertex(pp, i)][2]
    IN  (yi <= y /\ y <= yj) \/ (yj <= y /\ y <= yi)

\* The half-open edge test of row y for the edge ending at vertex i.
EdgeCrosses(pp, i, y) ==
    LET yi == pp[i][2]
        yj == pp[PrevVertex(pp, i)][2]
    IN  (yi <= y /\ y < yj) \/ (yj <= y /\ y < yi)

\* x_int = xi + (y - yi) * (xj - xi) / (yj - yi) as the rational <<num, den>>,
\* den > 0.  binary64 computes the quotient exactly when it is an integer
\* and within 1e-12 of it otherwise, so ceil and floor see the rational.
EdgeX(pp, i, y) ==
    LET xi == pp[i][1]
        yi == pp[i][2]
        xj == pp[PrevVertex(pp, i)][1]
        yj == pp[PrevVertex(pp, i)][2]
        num == xi * (yj - yi) + (y - yi) * (xj - xi)
        den == yj - yi
    IN  IF den > 0 THEN <<num, den>> ELSE <<-num, -den>>

\* The sorted x-intersections of row y with the polygon's edges.
intersections(pp, y) ==
    LET hit == SelectSeq([i \in 1..Len(pp) |-> i],
                         LAMBDA i : EdgeCrosses(pp, i, y) /\ pp[PrevVertex(pp, i)][2] # pp[i][2])
    IN  SortSeq([k \in 1..Len(hit) |-> EdgeX(pp, hit[k], y)], RatLess)

\* The spans with x_end left out of the fill: mask[y, x_start : x_end].
row_spans_end_excluded(pp, y) ==
    LET xs == intersections(pp, y)
    IN  { << Max(bbox_x_min(pp), CeilDiv(xs[k][1], xs[k][2])),
             Min(bbox_x_max(pp), FloorDiv(xs[k + 1][1], xs[k + 1][2])) - 1 >> :
          k \in {k \in 1..(Len(xs) - 1) : k % 2 = 1} }

\* The spans <<x_start, x_end>> of row y: for k in range(0, len - 1, 2).
row_spans(pp, y) ==
    LET xs == intersections(pp, y)
    IN  { << Max(bbox_x_min(pp), CeilDiv(xs[k][1], xs[k][2])),
             Min(bbox_x_max(pp), FloorDiv(xs[k + 1][1], xs[k + 1][2])) >> :
          k \in {k \in 1..(Len(xs) - 1) : k % 2 = 1} }

\* The cells rasterize_polygon writes for a polygon: mask[y, x_start : x_end + 1].
filled_pixels(polygon) ==
    IF Len(polygon) = 0 THEN {}
    ELSE LET pp == polygon_to_pixel_coords(polygon)
         IN  UNION { UNION { { <<x, y>> : x \in sp[1]..sp[2] } : sp \in row_spans(pp, y) } :
                     y \in bbox_y_min(pp)..bbox_y_max(pp) }

\* rasterize_polygon with the cells or-ed with the value instead of assigned.
rasterize_polygon_or(mask, polygon, value) ==
    LET cells == filled_pixels(polygon)
    IN  [p \in DOMAIN mask |-> IF p \in cells THEN Max(mask[p], value) ELSE mask[p]]

\* rasterize_polygon starting from a cleared mask: the cells off the spans reset.
rasterize_polygon_cleared(mask, polygon, value) ==
    LET cells == filled_pixels(polygon)
    IN  [p \in DOMAIN mask |-> IF p \in cells THEN value ELSE 0]

rasterize_polygon(mask, polygon, value) ==
    LET cells == filled_pixels(polygon)
    IN  [p \in DOMAIN mask |-> IF p \in cells THEN value ELSE mask[p]]

\* ------------------------------------------------------------------------
\* rasterize_polygon_float
\* ------------------------------------------------------------------------
\* The cells rasterize_polygon_float writes: arr[y, x_start : x_end + 1] for
\* each pair of sorted intersections of each row of the clamped bounding box.
float_filled_pixels(polygon) ==
    LET pixel_poly == polygon_to_pixel_coords(polygon)
        n == Len(pixel_poly)
        xs == {pixel_poly[i][1] : i \in 1..n}
        ys == {pixel_poly[i][2] : i \in 1..n}
        y_min == Max(0, CHOOSE v \in ys : \A w \in ys : v <= w)
        y_max == Min(HEIGHT - 1, CHOOSE v \in ys : \A w \in ys : v >= w)
        x_min == Max(0, CHOOSE v \in xs : \A w \in xs : v <= w)
        x_max == Min(WIDTH - 1, CHOOSE v \in xs : \A w \in xs : v >= w)
        jOf(i) == IF i = 1 THEN n ELSE i - 1
        appended(i, y) ==
            LET yi == pixel_poly[i][2]
                yj == pixel_poly[jOf(i)][2]
            IN  ((yi <= y /\ y < yj) \/ (yj <= y /\ y < yi)) /\ yj # yi
        x_int(i, y) ==
            LET xi == pixel_poly[i][1]
                yi == pixel_poly[i][2]
                xj == pixel_poly[jOf(i)][1]
                yj == pixel_poly[jOf(i)][2]
            IN  IF yj > yi
                THEN <<xi * (yj - yi) + (y - yi) * (xj - xi), yj - yi>>
                ELSE <<xi * (yi - yj) + (y - yi) * (xi - xj), yi - yj>>
        sorted(y) ==
            LET edges == SelectSeq([i \in 1..n |-> i], LAMBDA i : appended(i, y))
            IN  SortSeq([e \in 1..Len(edges) |-> x_int(edges[e], y)], RatLess)
        row(y) ==
            LET s == sorted(y)
            IN  UNION { { <<x, y>> :
                          x \in Max(x_min, CeilDiv(s[e][1], s[e][2]))
                                ..Min(x_max, FloorDiv(s[e + 1][1], s[e + 1][2])) } :
                        e \in { e \in 1..(Len(s) - 1) : e % 2 = 1 } }
    IN  IF n = 0 THEN {} ELSE UNION { row(y) : y \in y_min..y_max }

rasterize_polygon_float(arr, polygon, value) ==
    LET cells == float_filled_pixels(polygon)
    IN  [p \in DOMAIN arr |-> IF p \in cells THEN value ELSE arr[p]]

\* ------------------------------------------------------------------------
\* create_land_mask / carve_water_bodies
\* ------------------------------------------------------------------------
\* rasterize_polygon(mask, polygon, value) for each polygon of a list, in order.
RECURSIVE rasterize_all(_, _, _)
rasterize_all(mask, polygons, value) ==
    IF polygons = <<>> THEN mask
    ELSE rasterize_all(rasterize_polygon(mask, Head(polygons), value),
                       Tail(polygons), value)

\* ------------------------------------------------------------------------
\* generate_heightmap: the land/ocean boundary re-enforced, then the clamp
\* ------------------------------------------------------------------------
\* The re-enforcement with the land floor at WATER_LEVEL instead of
\* WATER_LEVEL + 1.
enforce_boundary_floor_at_sea_level(final, mask) ==
    [p \in DOMAIN final |->
        IF mask[p] = 1 THEN Max(final[p], WATER_LEVEL * ElevUnit)
        ELSE Min(final[p], WATER_LEVEL * ElevUnit)]

\* The re-enforcement with the ocean cap only: land keeps its smoothed value.
enforce_boundary_ocean_only(final, mask) ==
    [p \in DOMAIN final |->
        IF mask[p] = 1 THEN final[p] ELSE Min(final[p], WATER_LEVEL * ElevUnit)]

\* np.where(land_mask == 1, np.maximum(final, WATER_LEVEL + 1),
\*          np.minimum(final, WATER_LEVEL))
enforce_boundary(final, mask) ==
    [p \in DOMAIN final |->
        IF mask[p] = 1 THEN Max(final[p], (WATER_LEVEL + 1) * ElevUnit)
        ELSE Min(final[p], WATER_LEVEL * ElevUnit)]

\* np.clip(final, 0, 127).astype(np.uint8): the cast truncates.
clip_to_uint8(final) ==
    [p \in DOMAIN final |->
        TruncDiv(Min(Max(final[p], 0), 127 * ElevUnit), ElevUnit)]

\* ------------------------------------------------------------------------
\* generate_province_map
\* ------------------------------------------------------------------------
\* np.inf in min_dist.
INF == 0 - 1

\* A capital is [pid, lon, lat]; capital_pixels[pid] = lonlat_to_xy(lon, lat).
capital_pixels(capitals) ==
    [i \in 1..Len(capitals) |->
        [pid |-> capitals[i].pid, xy |-> lonlat_to_xy(capitals[i].lon, capitals[i].lat)]]

\* The square of np.sqrt((xs - cx) ** 2 + (ys - cy) ** 2).  The squares are
\* integers below 2^25, on which binary64's sqrt is strictly increasing, so
\* dist < min_dist is decided by the squares.
dist_sq(p, c) == (p[1] - c[1]) * (p[1] - c[1]) + (p[2] - c[2]) * (p[2] - c[2])

\* closer with <= for <, so that a later capital takes an exact tie.
closer_or_equal(d, m) == m = INF \/ d <= m

\* closer with a comparison that is false against the initial np.inf.
closer_than_finite(d, m) == m # INF /\ d < m

\* closer = dist < min_dist
closer(d, m) == m = INF \/ d < m

\* assignable with the empire mask left out.
assignable_land_only(mask, empire) == [p \in DOMAIN mask |-> mask[p] = 1]

\* assignable = (land_mask == 1) & (empire_mask == 1)
assignable_of(mask, empire) == [p \in DOMAIN mask |-> mask[p] = 1 /\ empire[p] = 1]

\* One iteration of the loop over capital_pixels: the new province_map.
assign_province_map(pmap, mdist, assignable, cap) ==
    [p \in DOMAIN pmap |->
        IF closer(dist_sq(p, cap.xy), mdist[p]) /\ assignable[p] THEN cap.pid ELSE pmap[p]]

\* One iteration of the loop over capital_pixels: the new min_dist.
assign_min_dist(mdist, cap) ==
    [p \in DOMAIN mdist |->
        IF closer(dist_sq(p, cap.xy), mdist[p]) THEN dist_sq(p, cap.xy) ELSE mdist[p]]

\* province_map = np.where(assignable, province_map, 0)
force_unassignable_zero(pmap, assignable) ==
    [p \in DOMAIN pmap |-> IF assignable[p] THEN pmap[p] ELSE 0]

\* ------------------------------------------------------------------------
\* add_mountain_ridge_fast
\* ------------------------------------------------------------------------
\* A ridge is [points, peak_height, width]: a polyline of <<lon, lat>>, the
\* height added at its centre line, and width_deg in units of angle.

\* pad = int(width_deg / LON_RANGE * WIDTH * 3.5)
ridge_pad(ridge) == TruncDiv(7 * ridge.width * WIDTH, 2 * LON_RANGE)

ridge_pixel_pts(ridge) == polygon_to_pixel_coords(ridge.points)

\* The cells of heightmap[y_min : y_max + 1, x_min : x_max + 1].
ridge_window(ridge) ==
    LET pts == ridge_pixel_pts(ridge)
        pad == ridge_pad(ridge)
    IN  (Max(0, SeqMin(pts, 1) - pad)..Min(WIDTH - 1, SeqMax(pts, 1) + pad))
        \X (Max(0, SeqMin(pts, 2) - pad)..Min(HEIGHT - 1, SeqMax(pts, 2) + pad))

\* dist_sq of cell p to the segment a-b, the rational <<num, den>>: the
\* projection parameter t = dot / length_sq is clipped to [0, 1].
segment_dist_sq(p, a, b) ==
    LET dx == b[1] - a[1]
        dy == b[2] - a[2]
        length_sq == dx * dx + dy * dy
        dot == (p[1] - a[1]) * dx + (p[2] - a[2]) * dy
    IN  IF length_sq = 0 THEN <<dist_sq(p, a), 1>>
        ELSE IF dot <= 0 THEN <<dist_sq(p, a), 1>>
        ELSE IF dot >= length_sq THEN <<dist_sq(p, b), 1>>
        ELSE <<dist_sq(p, a) * length_sq - dot * dot, length_sq>>

\* min_dist_sq taken from the first segment alone.
ridge_first_segment_dist_sq(p, pts, n) ==
    IF n = 0 THEN <<1, 0>> ELSE segment_dist_sq(p, pts[1], pts[2])

\* min_dist_sq over the segments 1..n of the polyline; <<1, 0>> is np.inf.
RECURSIVE ridge_min_dist_sq(_, _, _)
ridge_min_dist_sq(p, pts, n) ==
    IF n = 0 THEN <<1, 0>>
    ELSE LET rest == ridge_min_dist_sq(p, pts, n - 1)
             d == segment_dist_sq(p, pts[n], pts[n + 1])
         IN  IF rest[2] = 0 \/ RatLess(d, rest) THEN d ELSE rest

\* sigma_avg = (sigma_x + sigma_y) / 2 in cells, a rational in lowest terms,
\* with sigma_x = width_deg / LON_RANGE * WIDTH and
\* sigma_y = width_deg / LAT_RANGE * HEIGHT.
ridge_sigma_avg(ridge) ==
    LET sx == RatNorm(ridge.width * WIDTH, LON_RANGE)
        sy == RatNorm(ridge.width * HEIGHT, LAT_RANGE)
    IN  RatNorm(sx[1] * sy[2] + sy[1] * sx[2], 2 * sx[2] * sy[2])

\* addition = peak_height * exp(-min_dist_sq / (2 * sigma_avg ** 2)), in
\* 1/ElevUnit; exp(-inf) = 0 for a polyline without a segment.
ridge_addition(p, ridge) ==
    LET pts == ridge_pixel_pts(ridge)
        d == ridge_min_dist_sq(p, pts, Len(pts) - 1)
        sigma == ridge_sigma_avg(ridge)
    IN  IF d[2] = 0 THEN 0
        ELSE ridge.peak_height *
             exp_neg(d[1] * sigma[2] * sigma[2], 2 * d[2] * sigma[1] * sigma[1])

\* add_mountain_ridge_fast with the window assigned instead of added to.
add_mountain_ridge_assign(heightmap, ridge) ==
    LET window == ridge_window(ridge)
    IN  [p \in DOMAIN heightmap |->
            IF p \in window THEN ridge_addition(p, ridge) ELSE heightmap[p]]

\* heightmap[y_min : y_max + 1, x_min : x_max + 1] += addition
add_mountain_ridge_fast(heightmap, ridge) ==
    LET window == ridge_window(ridge)
    IN  [p \in DOMAIN heightmap |->
            IF p \in window THEN heightmap[p] + ridge_addition(p, ridge)
            ELSE heightmap[p]]

\* add_mountains: every ridge of the list, in its order.
RECURSIVE add_mountains(_, _)
add_mountains(heightmap, ridges) ==
    IF ridges = <<>> THEN heightmap
    ELSE add_mountains(add_mountain_ridge_fast(heightmap, Head(ridges)), Tail(ridges))

\* ------------------------------------------------------------------------
\* create_base_land_height
\* ------------------------------------------------------------------------
\* continental_var on the cells of the grid's north-west corner, row y + 1
\* and column x + 1, in 1/ElevUnit: 3 sin(0.15 lon) cos(0.12 lat)
\* + 2 sin(0.08 lon + 1) cos(0.1 lat + 0.5), rounded.
ContinentalVar ==
    << <<-158, -157, -157, -157, -156, -156, -155, -155>>,
       <<-158, -157, -157, -157, -156, -156, -156, -155>>,
       <<-158, -157, -157, -157, -156, -156, -156, -155>>,
       <<-158, -158, -157, -157, -157, -156, -156, -155>>,
       <<-158, -158, -157, -157, -157, -156, -156, -156>>,
       <<-158, -158, -157, -157, -157, -156, -156, -156>>,
       <<-158, -158, -158, -157, -157, -157, -156, -156>>,
       <<-158, -158, -158, -157, -157, -157, -156, -156>> >>

continental_var(p) == ContinentalVar[p[2] + 1][p[1] + 1]

\* base = LAND_BASE + 2.0 + continental_var on land, 0.0 elsewhere.
create_base_land_height(mask) ==
    [p \in DOMAIN mask |->
        IF mask[p] = 1 THEN (LAND_BASE + 2) * ElevUnit + continental_var(p) ELSE 0]

\* ------------------------------------------------------------------------
\* create_ocean_depth
\* ------------------------------------------------------------------------
\* A basin is [lon, lat, radius, depth]: the centre, the radius in units of
\* angle and the target depth.  At most MaxBasins basins are listed.
MaxBasins == 2

\* A depth is an integer counting 1/DepthUnit.  Every blend divides by FP,
\* so with at most MaxBasins blends of a cell the arithmetic is exact.
DepthUnit == FP ^ MaxBasins

\* np.full((HEIGHT, WIDTH), 15.0)
BaseDepth == 15 * DepthUnit

basin_center(basin) == lonlat_to_xy(basin.lon, basin.lat)

\* r_pixels = int(radius / LON_RANGE * WIDTH)
basin_r_pixels(basin) == TruncDiv(basin.radius * WIDTH, LON_RANGE)

\* The cells of depth[y_min:y_max, x_min:x_max].
basin_window(basin) ==
    LET c == basin_center(basin)
        r == basin_r_pixels(basin)
    IN  (Max(0, c[1] - r * 2)..(Min(WIDTH, c[1] + r * 2) - 1))
        \X (Max(0, c[2] - r * 2)..(Min(HEIGHT, c[2] + r * 2) - 1))

\* dist ** 2 times r_pixels ** 2: (xx - cx) ** 2 + (yy - cy) ** 2.
basin_dist_sq(p, basin) == dist_sq(p, basin_center(basin))

\* influence = np.exp(-dist ** 2 * 0.5), in 1/FP.
basin_influence(p, basin) ==
    exp_neg(basin_dist_sq(p, basin),
            2 * basin_r_pixels(basin) * basin_r_pixels(basin))

\* The guard with the threshold at 0.02.
influence_counts_above_2_percent(inf) == inf * 50 > FP

\* influence > 0.01
influence_counts(inf) == inf * 100 > FP

\* The blend taken from the base depth and accumulated, not from the
\* running value.
blend_depth_additive(d, target, inf) ==
    d + ((target * DepthUnit - BaseDepth) * inf) \div FP

\* depth * (1 - influence) + depth_val * influence
blend_depth(d, target, inf) ==
    (d * (FP - inf) + target * DepthUnit * inf) \div FP

\* One iteration of the loop over OCEAN_BASINS.
blend_basin(depth, basin) ==
    LET window == basin_window(basin)
    IN  [p \in DOMAIN depth |->
            IF p \in window /\ influence_counts(basin_influence(p, basin))
            THEN blend_depth(depth[p], basin.depth, basin_influence(p, basin))
            ELSE depth[p]]

RECURSIVE blend_basins(_, _)
blend_basins(depth, basins) ==
    IF basins = <<>> THEN depth
    ELSE blend_basins(blend_basin(depth, Head(basins)), Tail(basins))

\* The depth returned without the mask: land cells keep what the basins left.
mask_to_ocean_skipped(depth, mask) == depth

\* depth = np.where(land_mask == 0, depth, 0)
mask_to_ocean(depth, mask) ==
    [p \in DOMAIN depth |-> IF mask[p] = 0 THEN depth[p] ELSE 0]

\* ------------------------------------------------------------------------
\* _manual_distance_transform
\* ------------------------------------------------------------------------
\* An array's shape is <<rows, columns>>.  numpy adds two arrays when, in
\* each dimension, the sizes are equal or one of them is 1.
broadcastable(a, b) == \A i \in 1..2 : a[i] = b[i] \/ a[i] = 1 \/ b[i] = 1

broadcast_shape(a, b) == [i \in 1..2 |-> Max(a[i], b[i])]

\* current[1:, :] + current[:-1, :] + current[:, 1:] + current[:, :-1]
\* for an array of `shape`: whether numpy raises ValueError on a sum.
erosion_sum_raises(shape) ==
    LET rows == <<shape[1] - 1, shape[2]>>
        cols == <<shape[1], shape[2] - 1>>
    IN  \/ ~broadcastable(rows, rows)
        \/ ~broadcastable(broadcast_shape(rows, rows), cols)
        \/ ~broadcastable(broadcast_shape(broadcast_shape(rows, rows), cols), cols)

\* A whole-grid array is its viewport and the value `rest` of its other cells.
\* binary.any()
grid_any(view, rest) ==
    \/ \E p \in DOMAIN view : view[p] # 0
    \/ rest # 0 /\ Cardinality(DOMAIN view) < WIDTH * HEIGHT

\* 1 - land_mask
complement(mask) == [p \in DOMAIN mask |-> 1 - mask[p]]

\* Whether the call raises: the loop body runs when a cell is set, and its
\* sum of the four shifted arrays raises before the break is reached.
manual_distance_raises(view, rest) ==
    grid_any(view, rest) /\ erosion_sum_raises(<<HEIGHT, WIDTH>>)

\* The fields the blur fallback can return, in 1/ElevUnit: PIL's
\* GaussianBlur of binary * 255, scaled to [0, 10].  The blur of a uniform
\* image is that image; of any other image it is some field within [0, 10].
manual_distance_blur(view, rest) ==
    IF \A p \in DOMAIN view : view[p] = rest
    THEN { [p \in DOMAIN view |-> 10 * rest * ElevUnit] }
    ELSE [DOMAIN view -> 0..(10 * ElevUnit)]

\* ------------------------------------------------------------------------
\* Bounds of the model and the inputs drawn within them
\* ------------------------------------------------------------------------
\* The viewport is the cells 0..ViewN x 0..ViewN at the grid's north-west
\* corner; the vertices of the input polygons lie on its cell corners.
ViewN == 3

\* At most MaxCapitals capitals and MaxRidges ridges are listed.
MaxCapitals == 3
MaxRidges == 2

Pixels == (0..ViewN) \X (0..ViewN)

\* np.zeros((HEIGHT, WIDTH)) on the viewport.
ZeroGrid == [p \in Pixels |-> 0]

\* The sequences over S of length at most n.
SeqsUpTo(S, n) == UNION { [1..m -> S] : m \in 0..n }

\* The angle of the north-west corner of cell <<x, y>>, moved by <<jx, jy>>
\* units into the cell.
Corner(x, y, j) == <<x_to_lon(x) + j[1], y_to_lat(y) - j[2]>>

\* Offsets that keep a vertex inside its cell (a cell is 60 x 30 units).
Jitters == {<<0, 0>>, <<29, 14>>}

PointOf(c, j) == Corner(c \div (ViewN + 1), c % (ViewN + 1), j)

PointCodes == 0..((ViewN + 1) * (ViewN + 1) - 1)

\* Every triangle on the cell corners, in both orientations.
Triangles(j) ==
    UNION { { <<PointOf(t[1], j), PointOf(t[2], j), PointOf(t[3], j)>>,
              <<PointOf(t[3], j), PointOf(t[2], j), PointOf(t[1], j)>> } :
            t \in { t \in PointCodes \X PointCodes \X PointCodes :
                      t[1] < t[2] /\ t[2] < t[3] } }

Rect(x0, y0, x1, y1, j) ==
    <<Corner(x0, y0, j), Corner(x1, y0, j), Corner(x1, y1, j), Corner(x0, y1, j)>>

\* Every axis-aligned rectangle on the cell corners.
Rects(j) ==
    { Rect(r[1], r[2], r[3], r[4], j) :
      r \in { q \in (0..ViewN) \X (0..ViewN) \X (0..ViewN) \X (0..ViewN) :
                q[1] < q[3] /\ q[2] < q[4] } }

\* Polygons that are not convex: a bow tie, whose edges cross, an arrow
\* head, an L, a triangle listed with its first vertex repeated, and a U.
OddPolygons ==
    { <<Corner(0, 0, <<0, 0>>), Corner(ViewN, ViewN, <<0, 0>>),
        Corner(ViewN, 0, <<0, 0>>), Corner(0, ViewN, <<0, 0>>)>>,
      <<Corner(0, 0, <<29, 14>>), Corner(ViewN, 1, <<29, 14>>),
        Corner(1, 1, <<29, 14>>), Corner(1, ViewN, <<29, 14>>)>>,
      <<Corner(0, 0, <<0, 0>>), Corner(2, 0, <<0, 0>>), Corner(2, 1, <<0, 0>>),
        Corner(1, 1, <<0, 0>>), Corner(1, ViewN, <<0, 0>>), Corner(0, ViewN, <<0, 0>>)>>,
      <<Corner(0, 1, <<0, 0>>), Corner(0, 1, <<0, 0>>), Corner(ViewN, 1, <<0, 0>>),
        Corner(2, ViewN, <<0, 0>>)>>,
      <<Corner(0, 0, <<0, 0>>), Corner(1, 0, <<0, 0>>), Corner(1, 2, <<0, 0>>),
        Corner(2, 2, <<0, 0>>), Corner(2, 0, <<0, 0>>), Corner(ViewN, 0, <<0, 0>>),
        Corner(ViewN, ViewN, <<0, 0>>), Corner(0, ViewN, <<0, 0>>)>> }

LandPolygons == UNION { Triangles(j) \cup Rects(j) : j \in Jitters } \cup OddPolygons

\* The cut-outs: the rectangles with a corner at <<1, 1>>, and two triangles.
WaterPolygons ==
    { Rect(1, 1, x, y, <<0, 0>>) : x \in 2..ViewN, y \in 2..ViewN }
    \cup { <<Corner(1, 1, <<0, 0>>), Corner(2, 1, <<0, 0>>), Corner(1, 2, <<0, 0>>)>>,
           <<Corner(0, 0, <<29, 14>>), Corner(0, ViewN, <<29, 14>>), Corner(2, 1, <<29, 14>>)>> }

\* A few land masks: no land, the whole viewport, its west part, a block
\* in the middle, a triangle.
SomeLandPolygons ==
    { <<>>,
      Rect(0, 0, ViewN + 1, ViewN + 1, <<0, 0>>),
      Rect(0, 0, 1, ViewN + 1, <<0, 0>>),
      Rect(1, 1, 2, 3, <<29, 14>>),
      <<Corner(0, 0, <<0, 0>>), Corner(ViewN, 1, <<0, 0>>), Corner(1, ViewN, <<0, 0>>)>> }

SomeLandMasks == { rasterize_polygon(ZeroGrid, a, 1) : a \in SomeLandPolygons }

\* The lists of empire-boundary polygons: the whole viewport, two
\* overlapping parts, one block, a triangle.
EmpireLists ==
    { << Rect(0, 0, ViewN + 1, ViewN + 1, <<0, 0>>) >>,
      << Rect(0, 0, 1, ViewN + 1, <<0, 0>>), Rect(1, 1, ViewN, 3, <<0, 0>>) >>,
      << Rect(1, 0, 2, 2, <<29, 14>>) >>,
      << <<Corner(0, 0, <<0, 0>>), Corner(ViewN, 1, <<0, 0>>), Corner(1, ViewN, <<0, 0>>)>> >> }

\* Where a capital may lie: in cells <<0, 0>>, <<2, 0>>, <<1, 2>>,
\* <<ViewN, ViewN>>, and west of the frame (a negative column).
CapitalSites ==
    { Corner(0, 0, <<0, 0>>), Corner(2, 0, <<29, 14>>), Corner(1, 2, <<0, 0>>),
      Corner(ViewN, ViewN, <<29, 14>>), Corner(0 - 2, 1, <<0, 0>>) }

\* The capital lists: the capitals 1, 2, ... in list order, as the keys
\* of PROVINCE_CAPITALS are.
CapitalLists ==
    { [i \in 1..Len(sites) |-> [pid |-> i, lon |-> sites[i][1], lat |-> sites[i][2]]] :
      sites \in SeqsUpTo(CapitalSites, MaxCapitals) }

\* The polylines of the ridges: two segments, a bent line, a single vertex,
\* a segment of length zero.
RidgeLines ==
    { << Corner(0, 1, <<0, 0>>), Corner(ViewN, 1, <<0, 0>>) >>,
      << Corner(1, 0, <<29, 14>>), Corner(2, ViewN, <<29, 14>>) >>,
      << Corner(0, 0, <<0, 0>>), Corner(2, 2, <<0, 0>>), Corner(ViewN, 0, <<0, 0>>) >>,
      << Corner(1, 1, <<0, 0>>) >>,
      << Corner(2, 2, <<0, 0>>), Corner(2, 2, <<29, 14>>) >> }

\* Widths of 40 and 80 units give sigma_avg = 1 and 2 cells: a low narrow
\* ridge and a high wide one on every polyline.
Ridges ==
    { [points |-> l, peak_height |-> hw[1], width |-> hw[2]] :
      l \in RidgeLines, hw \in { <<15, 40>>, <<50, 80>> } }

\* Radii of 30, 60 and 120 units give r_pixels = 0, 1 and 2.
Basins ==
    { [lon |-> c[1], lat |-> c[2], radius |-> r, depth |-> d] :
      c \in { Corner(1, 1, <<0, 0>>), Corner(2, 2, <<29, 14>>), Corner(0, ViewN, <<0, 0>>) },
      r \in {30, 60, 120}, d \in {5, 18} }

\* Elevations around the thresholds, in 1/ElevUnit: below zero, zero, just
\* around WATER_LEVEL and WATER_LEVEL + 1, around 127 and far above.
SampleLevels ==
    << 0 - 3 * ElevUnit, 0, 1, WATER_LEVEL * ElevUnit - 1, WATER_LEVEL * ElevUnit,
       WATER_LEVEL * ElevUnit + 1, (WATER_LEVEL + 1) * ElevUnit - 1,
       (WATER_LEVEL + 1) * ElevUnit, (WATER_LEVEL + 1) * ElevUnit + 1,
       60 * ElevUnit, 127 * ElevUnit, 127 * ElevUnit + 1, 300 * ElevUnit >>

\* A field that runs through SampleLevels from cell to cell.
SampleField(shift, stride) ==
    [p \in Pixels |->
        SampleLevels[((shift + stride * (p[1] + (ViewN + 1) * p[2])) % Len(SampleLevels)) + 1]]

SampleFields == { SampleField(a, b) : a \in 0..(Len(SampleLevels) - 1), b \in {1, 5} }

\* ------------------------------------------------------------------------
\* State
\* ------------------------------------------------------------------------
VARIABLES
    pc,               \* the position of the run
    k,                \* the number of list items the current loop has done
    error,            \* the exception that ended the run, or "none"
    scipy_available,  \* whether scipy can be imported
    geography,        \* the geography tables: landmasses, water_bodies,
                      \* empire, capitals, mountains, basins
    axis,             \* projector: which axis is converted, "x" or "y"
    pix,              \* projector: the pixel index given
    deg,              \* projector: the angle x_to_lon / y_to_lat returned
    back,             \* projector: the pixel index lon_to_x / lat_to_y returned
    land_mask,        \* the land mask
    depth,            \* create_ocean_depth's depth
    heightmap,        \* the land height field
    land_dist,        \* the distance of a land cell to the ocean
    ocean_dist,       \* the distance of an ocean cell to the land
    final,            \* the combined elevation field
    empire_mask,      \* generate_province_map's empire_mask
    min_dist,         \* generate_province_map's min_dist (squared)
    province_map,     \* generate_province_map's province_map
    written,          \* the cells the last rasterize_polygon call assigned
    run,              \* which run of main this is, 1 or 2
    first,            \* the grids the first run of main produced
    ident             \* per grid name, how often the name was bound to a new array

vars == <<pc, k, error, scipy_available, geography, axis, pix, deg, back,
          land_mask, depth, heightmap, land_dist, ocean_dist, final,
          empire_mask, min_dist, province_map, written, run, first, ident>>

projVars == <<axis, pix, deg, back>>
auxVars == <<scipy_available, geography, written, run, first>>
envVars == <<scipy_available, geography, written, run, first, ident>>
elevVars == <<depth, heightmap, land_dist, ocean_dist, final>>
provVars == <<empire_mask, min_dist, province_map>>

NoValue == 0 - 1
NoGrid == <<>>

NoGeography ==
    [landmasses |-> <<>>, water_bodies |-> <<>>, empire |-> <<>>,
     capitals |-> <<>>, mountains |-> <<>>, basins |-> <<>>]

ProjIdle == axis = "none" /\ pix = NoValue /\ deg = NoValue /\ back = NoValue
ElevIdle ==
    /\ depth = NoGrid /\ heightmap = NoGrid /\ land_dist = NoGrid
    /\ ocean_dist = NoGrid /\ final = NoGrid
ProvIdle == empire_mask = NoGrid /\ min_dist = NoGrid /\ province_map = NoGrid
\* The names of the arrays that generate_heightmap, main and
\* generate_province_map hand from stage to stage.
GridNames == {"land_mask", "depth", "heightmap", "final", "province_map"}

\* name = <a new array> for the names given; an assignment to a slice of an
\* array, or +=, leaves the name on its array.
rebound(names) == [g \in GridNames |-> IF g \in names THEN ident[g] + 1 ELSE ident[g]]

\* No rasterize_polygon call is followed, this is the first run of main, and
\* no name was bound yet.
AuxIdle ==
    /\ written = {} /\ run = 1 /\ first = NoGrid
    /\ ident = [g \in GridNames |-> 0]

\* ------------------------------------------------------------------------
\* Projector: a pixel index is converted to an angle and back
\* ------------------------------------------------------------------------
ProjInit ==
    /\ pc = "pixel" /\ k = 0 /\ error = "none" /\ scipy_available = TRUE
    /\ AuxIdle
    /\ geography = NoGeography
    /\ axis \in {"x", "y"}
    /\ pix \in 0..(IF axis = "x" THEN WIDTH - 1 ELSE HEIGHT - 1)
    /\ deg = NoValue
    /\ back = NoValue
    /\ land_mask = NoGrid /\ ElevIdle /\ ProvIdle

ToAngle ==
    /\ pc = "pixel"
    /\ deg' = IF axis = "x" THEN x_to_lon(pix) ELSE y_to_lat(pix)
    /\ pc' = "angle"
    /\ UNCHANGED <<k, error, envVars, axis, pix, back, land_mask, elevVars, provVars>>

ToPixel ==
    /\ pc = "angle"
    /\ back' = IF axis = "x" THEN lon_to_x(deg) ELSE lat_to_y(deg)
    /\ pc' = "back"
    /\ UNCHANGED <<k, error, envVars, axis, pix, deg, land_mask, elevVars, provVars>>

ProjNext == ToAngle \/ ToPixel

SpecProjector == ProjInit /\ [][ProjNext]_vars

\* C6: for every integer pixel x in 0..WIDTH-1 and y in 0..HEIGHT-1,
\* lon_to_x(x_to_lon(x)) = x and lat_to_y(y_to_lat(y)) = y.
C6_RoundTrip == pc = "back" => back = pix

\* A pixel of the last row has been converted to its latitude and back.
C6_Witness == pc = "back" /\ axis = "y" /\ pix = HEIGHT - 1 /\ back = HEIGHT - 1

\* ------------------------------------------------------------------------
\* generate_heightmap, step 1: the land mask
\* ------------------------------------------------------------------------
create_land_mask ==
    /\ pc = "start"
    /\ land_mask' = rasterize_all(ZeroGrid, geography.landmasses, 1)
    /\ pc' = "filled"
    /\ ident' = rebound({"land_mask"})
    /\ UNCHANGED <<k, error, auxVars, projVars, elevVars, provVars>>

\* The cut-outs carved before the last landmass is filled.
carve_before_last_landmass ==
    /\ pc = "filled"
    /\ land_mask' =
          LET carved == rasterize_all(land_mask, geography.water_bodies, 0)
              n == Len(geography.landmasses)
          IN  IF n = 0 THEN carved
              ELSE rasterize_polygon(carved, geography.landmasses[n], 1)
    /\ pc' = "carved"
    /\ UNCHANGED <<k, error, envVars, projVars, elevVars, provVars>>

carve_water_bodies ==
    /\ pc = "filled"
    /\ land_mask' = rasterize_all(land_mask, geography.water_bodies, 0)
    /\ pc' = "carved"
    /\ UNCHANGED <<k, error, envVars, projVars, elevVars, provVars>>

\* One landmass and one cut-out.
MaskInit ==
    /\ pc = "start" /\ k = 0 /\ error = "none" /\ scipy_available = TRUE
    /\ AuxIdle
    /\ geography \in { [NoGeography EXCEPT !.landmasses = <<a>>, !.water_bodies = <<b>>] :
                       a \in LandPolygons, b \in WaterPolygons }
    /\ land_mask = NoGrid
    /\ ProjIdle /\ ElevIdle /\ ProvIdle

MaskNext == create_land_mask \/ carve_water_bodies

SpecMask == MaskInit /\ [][MaskNext]_vars

\* C4: filling a polygon A with 1 on a zero mask and then a polygon B with 0
\* leaves set exactly the cells filled for A that are not filled for B (for
\* all the polygons drawn, the simple ones with B inside A among them).
C4_FillThenCarve ==
    pc = "carved" =>
        LET kept == filled_pixels(geography.landmasses[1])
                        \ filled_pixels(geography.water_bodies[1])
        IN  \A p \in Pixels : land_mask[p] = IF p \in kept THEN 1 ELSE 0

\* The square of corners <<0, 0>>, <<3, 3>> was filled and the unit square
\* at <<1, 1>> inside it carved: its cells are 0 again, the others stay 1.
C4_Witness ==
    /\ pc = "carved"
    /\ geography.landmasses = << Rect(0, 0, 3, 3, <<0, 0>>) >>
    /\ geography.water_bodies = << Rect(1, 1, 2, 2, <<0, 0>>) >>
    /\ land_mask[<<1, 1>>] = 0 /\ land_mask[<<2, 1>>] = 0
    /\ land_mask[<<0, 1>>] = 1 /\ land_mask[<<3, 1>>] = 1 /\ land_mask[<<1, 0>>] = 1

\* The squares with their corners on cell corners.
AlignedSquares ==
    { Rect(q[1], q[2], q[1] + q[3], q[2] + q[3], <<0, 0>>) :
      q \in { q \in (0..ViewN) \X (0..ViewN) \X (1..ViewN) :
                q[1] + q[3] <= ViewN /\ q[2] + q[3] <= ViewN } }

\* Whether the centre of cell p lies inside the rectangle (angles doubled,
\* to keep the half cell an integer).
centre_inside(p, rect) ==
    LET lon2 == x_to_lon(p[1]) + x_to_lon(p[1] + 1)
        lat2 == y_to_lat(p[2]) + y_to_lat(p[2] + 1)
    IN  /\ 2 * rect[1][1] < lon2 /\ lon2 < 2 * rect[2][1]
        /\ 2 * rect[3][2] < lat2 /\ lat2 < 2 * rect[1][2]

\* C5: filling a square with its corners on cell corners on a zero grid
\* sets exactly the cells whose centres lie inside the square.
C5_SquareFillsCentresInside ==
    (pc = "filled" /\ geography.landmasses[1] \in AlignedSquares) =>
        \A p \in Pixels :
            land_mask[p] = 1 <=> centre_inside(p, geography.landmasses[1])

\* ------------------------------------------------------------------------
\* generate_heightmap, step 6: the boundary re-enforced and the clamp
\* ------------------------------------------------------------------------
\* The re-enforcement written into the smoothed array itself.
enforce_land_ocean_in_place ==
    /\ pc = "smoothed"
    /\ final' = enforce_boundary(final, land_mask)
    /\ pc' = "enforced"
    /\ UNCHANGED <<k, error, envVars, projVars, land_mask, depth, heightmap,
                   land_dist, ocean_dist, provVars>>

\* final = np.where(land_mask == 1, np.maximum(...), np.minimum(...))
enforce_land_ocean ==
    /\ pc = "smoothed"
    /\ final' = enforce_boundary(final, land_mask)
    /\ pc' = "enforced"
    /\ ident' = rebound({"final"})
    /\ UNCHANGED <<k, error, auxVars, projVars, land_mask, depth, heightmap,
                   land_dist, ocean_dist, provVars>>

\* final = np.clip(final, 0, 127).astype(np.uint8); return final
clamp_and_return ==
    /\ pc = "enforced"
    /\ final' = clip_to_uint8(final)
    /\ pc' = "returned"
    /\ ident' = rebound({"final"})
    /\ UNCHANGED <<k, error, auxVars, projVars, land_mask, depth, heightmap,
                   land_dist, ocean_dist, provVars>>

\* Any land mask, and any field left by the smoothing.
EnforceInit ==
    /\ pc = "smoothed" /\ k = 0 /\ error = "none" /\ scipy_available = TRUE
    /\ AuxIdle
    /\ geography = NoGeography
    /\ land_mask \in { rasterize_polygon(ZeroGrid, a, 1) :
                       a \in Rects(<<0, 0>>) \cup SomeLandPolygons }
    /\ final \in SampleFields
    /\ depth = NoGrid /\ heightmap = NoGrid /\ land_dist = NoGrid /\ ocean_dist = NoGrid
    /\ ProjIdle /\ ProvIdle

EnforceNext == enforce_land_ocean \/ clamp_and_return

SpecEnforce == EnforceInit /\ [][EnforceNext]_vars

\* C1: every cell of the returned grid is in 0..127, above WATER_LEVEL where
\* the land mask is land and at most WATER_LEVEL where it is ocean, whatever
\* the smoothed field held.
C1_LandSeaInvariant ==
    pc = "returned" =>
        \A p \in Pixels :
            /\ final[p] \in 0..127
            /\ land_mask[p] = 1 => final[p] > WATER_LEVEL
            /\ land_mask[p] = 0 => final[p] <= WATER_LEVEL

\* A run has returned in which a land cell held a value below sea level and
\* an ocean cell one above 127 before the re-enforcement.
C1_Witness ==
    /\ pc = "returned"
    /\ \E p \in Pixels : land_mask[p] = 1 /\ final[p] = WATER_LEVEL + 1
    /\ \E p \in Pixels : land_mask[p] = 0 /\ final[p] = WATER_LEVEL
    /\ \E p \in Pixels : land_mask[p] = 1 /\ final[p] = 127
    /\ \E p \in Pixels : land_mask[p] = 0 /\ final[p] = 0

\* ------------------------------------------------------------------------
\* generate_province_map
\* ------------------------------------------------------------------------
\* province_map and empire_mask are created, EMPIRE_EXTENT and
\* EMPIRE_BRITAIN rasterized, min_dist filled with np.inf.
begin_province_map ==
    /\ pc = "prov_start"
    /\ province_map' = ZeroGrid
    /\ empire_mask' = rasterize_all(ZeroGrid, geography.empire, 1)
    /\ min_dist' = [p \in Pixels |-> INF]
    /\ k' = 0
    /\ pc' = "capitals"
    /\ ident' = rebound({"province_map"})
    /\ UNCHANGED <<error, auxVars, projVars, land_mask, elevVars>>

\* The loop over the capitals in an order that changes from run to run, as
\* the iteration of a set does.
assign_capital_hash_order ==
    /\ pc = "capitals"
    /\ k < Len(geography.capitals)
    /\ LET cap == capital_pixels(geography.capitals)[
                      IF run = 2 THEN Len(geography.capitals) - k ELSE k + 1]
           assignable == assignable_of(land_mask, empire_mask)
       IN  /\ province_map' = assign_province_map(province_map, min_dist, assignable, cap)
           /\ min_dist' = assign_min_dist(min_dist, cap)
    /\ k' = k + 1
    /\ ident' = rebound({"province_map"})
    /\ UNCHANGED <<pc, error, auxVars, projVars, land_mask, elevVars, empire_mask>>

\* for pid, (cx, cy) in capital_pixels.items(): one iteration.
assign_capital ==
    /\ pc = "capitals"
    /\ k < Len(geography.capitals)
    /\ LET cap == capital_pixels(geography.capitals)[k + 1]
           assignable == assignable_of(land_mask, empire_mask)
       IN  /\ province_map' = assign_province_map(province_map, min_dist, assignable, cap)
           /\ min_dist' = assign_min_dist(min_dist, cap)
    /\ k' = k + 1
    /\ ident' = rebound({"province_map"})
    /\ UNCHANGED <<pc, error, auxVars, projVars, land_mask, elevVars, empire_mask>>

\* The loop has ended: the cells that are not assignable are set to 0 and
\* the map is returned.
finish_province_map ==
    /\ pc = "capitals"
    /\ k = Len(geography.capitals)
    /\ province_map' =
           force_unassignable_zero(province_map, assignable_of(land_mask, empire_mask))
    /\ pc' = "prov_done"
    /\ ident' = rebound({"province_map"})
    /\ UNCHANGED <<k, error, auxVars, projVars, land_mask, elevVars, empire_mask, min_dist>>

ProvInit ==
    /\ pc = "prov_start" /\ k = 0 /\ error = "none" /\ scipy_available = TRUE
    /\ AuxIdle
    /\ geography \in { [NoGeography EXCEPT !.empire = e, !.capitals = c] :
                       e \in EmpireLists, c \in CapitalLists }
    /\ land_mask \in SomeLandMasks
    /\ ProjIdle /\ ElevIdle /\ ProvIdle

ProvNext == begin_province_map \/ assign_capital \/ finish_province_map

SpecProvince == ProvInit /\ [][ProvNext]_vars

\* The cells of the capitals, in list order.
CapitalCells == capital_pixels(geography.capitals)

\* The first of the capitals 1..n that is nearest to cell p.
FirstNearest(p, n) ==
    CHOOSE i \in 1..n :
        /\ \A j \in 1..n : dist_sq(p, CapitalCells[i].xy) <= dist_sq(p, CapitalCells[j].xy)
        /\ \A j \in 1..(i - 1) : dist_sq(p, CapitalCells[j].xy) > dist_sq(p, CapitalCells[i].xy)

C3_UnassignableIsZero ==
    pc = "prov_done" =>
        \A p \in Pixels :
            (land_mask[p] = 0 \/ empire_mask[p] = 0) => province_map[p] = 0

\* The map was returned with a capital lying on a land cell outside the
\* empire mask and on an ocean cell inside it; both cells carry 0.
C3_Witness ==
    /\ pc = "prov_done"
    /\ \E i \in 1..Len(geography.capitals) :
          /\ CapitalCells[i].xy \in Pixels
          /\ land_mask[CapitalCells[i].xy] = 1
          /\ empire_mask[CapitalCells[i].xy] = 0
          /\ province_map[CapitalCells[i].xy] = 0
    /\ \E i \in 1..Len(geography.capitals) :
          /\ CapitalCells[i].xy \in Pixels
          /\ land_mask[CapitalCells[i].xy] = 0
          /\ empire_mask[CapitalCells[i].xy] = 1
          /\ province_map[CapitalCells[i].xy] = 0
    /\ \E p \in Pixels : province_map[p] # 0

\* C9: with an empty capital list the run fails with a configuration error
\* and returns no province raster.
C9_EmptyCapitalsFailFast ==
    geography.capitals = <<>> => ~(pc = "prov_done" /\ error = "none")

\* ------------------------------------------------------------------------
\* generate_heightmap, step 2: create_ocean_depth
\* ------------------------------------------------------------------------
\* depth = np.full((HEIGHT, WIDTH), 15.0)
begin_ocean_depth ==
    /\ pc = "carved"
    /\ depth' = [p \in Pixels |-> BaseDepth]
    /\ k' = 0
    /\ pc' = "basins"
    /\ ident' = rebound({"depth"})
    /\ UNCHANGED <<error, auxVars, projVars, land_mask, heightmap, land_dist,
                   ocean_dist, final, provVars>>

\* for lon, lat, radius, depth_val in OCEAN_BASINS: one iteration.
blend_next_basin ==
    /\ pc = "basins"
    /\ k < Len(geography.basins)
    /\ depth' = blend_basin(depth, geography.basins[k + 1])
    /\ k' = k + 1
    /\ UNCHANGED <<pc, error, envVars, projVars, land_mask, heightmap, land_dist,
                   ocean_dist, final, provVars>>

\* The loop has ended: the depth is kept on ocean cells only and returned.
mask_ocean_depth ==
    /\ pc = "basins"
    /\ k = Len(geography.basins)
    /\ depth' = mask_to_ocean(depth, land_mask)
    /\ pc' = "depth_done"
    /\ ident' = rebound({"depth"})
    /\ UNCHANGED <<k, error, auxVars, projVars, land_mask, heightmap, land_dist,
                   ocean_dist, final, provVars>>

DepthInit ==
    /\ pc = "carved" /\ k = 0 /\ error = "none" /\ scipy_available = TRUE
    /\ AuxIdle
    /\ geography \in { [NoGeography EXCEPT !.basins = b] : b \in SeqsUpTo(Basins, MaxBasins) }
    /\ land_mask \in SomeLandMasks
    /\ ProjIdle /\ ElevIdle /\ ProvIdle

DepthNext == begin_ocean_depth \/ blend_next_basin \/ mask_ocean_depth

SpecDepth == DepthInit /\ [][DepthNext]_vars

\* The basin list with its last two entries exchanged.
LastTwoSwapped(basins) ==
    LET n == Len(basins)
    IN  [i \in 1..n |-> IF i = n - 1 THEN basins[n]
                        ELSE IF i = n THEN basins[n - 1] ELSE basins[i]]

\* C8: the returned depth is the fold of the blend over the basins in list
\* order, the blend of a window cell being taken from the running value; for
\* the last two basins a, b of the list, the field of the list with a and b
\* exchanged differs from it on the ocean cells of both windows by
\* influence_a * influence_b * (target_b - target_a), which is not zero when
\* the targets differ, and is the same on every other cell.
C8_OrderDependentFold ==
    pc = "depth_done" =>
        /\ depth = mask_to_ocean(blend_basins([p \in Pixels |-> BaseDepth], geography.basins),
                                 land_mask)
        /\ Len(geography.basins) >= 2 =>
              LET n == Len(geography.basins)
                  a == geography.basins[n - 1]
                  b == geography.basins[n]
                  both == basin_window(a) \cap basin_window(b)
                  other == mask_to_ocean(
                               blend_basins([p \in Pixels |-> BaseDepth],
                                            LastTwoSwapped(geography.basins)),
                               land_mask)
              IN  \A p \in Pixels :
                      IF p \in both /\ land_mask[p] = 0
                      THEN /\ depth[p] - other[p] =
                                  basin_influence(p, a) * basin_influence(p, b)
                                  * (b.depth - a.depth) * (DepthUnit \div (FP * FP))
                           /\ a.depth # b.depth => depth[p] # other[p]
                      ELSE depth[p] = other[p]

\* The depth was returned for two basins with different targets whose
\* windows share an ocean cell; the later basin has pulled that cell off the
\* value the earlier one gave it.
C8_Witness ==
    /\ pc = "depth_done"
    /\ Len(geography.basins) = 2
    /\ geography.basins[1].depth # geography.basins[2].depth
    /\ \E p \in basin_window(geography.basins[1]) \cap basin_window(geography.basins[2]) :
          /\ p \in Pixels
          /\ land_mask[p] = 0
          /\ depth[p] # blend_basin([q \in Pixels |-> BaseDepth], geography.basins[1])[p]
          /\ depth[p] # blend_basin([q \in Pixels |-> BaseDepth], geography.basins[2])[p]

\* ------------------------------------------------------------------------
\* generate_heightmap, steps 3 and 4: base land height and mountains
\* ------------------------------------------------------------------------
base_land_height ==
    /\ pc = "depth_done"
    /\ heightmap' = create_base_land_height(land_mask)
    /\ k' = 0
    /\ pc' = "ridges"
    /\ ident' = rebound({"heightmap"})
    /\ UNCHANGED <<error, auxVars, projVars, land_mask, depth, land_dist,
                   ocean_dist, final, provVars>>

\* for ridge in MOUNTAINS: one iteration.
add_next_ridge ==
    /\ pc = "ridges"
    /\ k < Len(geography.mountains)
    /\ heightmap' = add_mountain_ridge_fast(heightmap, geography.mountains[k + 1])
    /\ k' = k + 1
    /\ UNCHANGED <<pc, error, envVars, projVars, land_mask, depth, land_dist,
                   ocean_dist, final, provVars>>

\* The ocean depth of a run without basins has been returned.
RidgeInit ==
    /\ pc = "depth_done" /\ k = 0 /\ error = "none" /\ scipy_available = TRUE
    /\ AuxIdle
    /\ geography \in { [NoGeography EXCEPT !.mountains = m] : m \in SeqsUpTo(Ridges, MaxRidges) }
    /\ land_mask \in SomeLandMasks
    /\ depth = mask_to_ocean([p \in Pixels |-> BaseDepth], land_mask)
    /\ heightmap = NoGrid /\ land_dist = NoGrid /\ ocean_dist = NoGrid /\ final = NoGrid
    /\ ProjIdle /\ ProvIdle

RidgeNext == base_land_height \/ add_next_ridge

SpecRidge == RidgeInit /\ [][RidgeNext]_vars

\* The orders in which n ridges can be iterated.
Orders(n) == { f \in [1..n -> 1..n] : \A i, j \in 1..n : f[i] = f[j] => i = j }

\* C7: once every ridge of the list is added, the field is the one that
\* adding the ridges in any other order to the base field gives.
C7_RidgeOrderIrrelevant ==
    (pc = "ridges" /\ k = Len(geography.mountains)) =>
        \A f \in Orders(Len(geography.mountains)) :
            heightmap = add_mountains(create_base_land_height(land_mask),
                                      [i \in 1..Len(geography.mountains) |->
                                          geography.mountains[f[i]]])

\* Two different ridges were added and both raised one and the same cell.
C7_Witness ==
    /\ pc = "ridges"
    /\ k = 2
    /\ Len(geography.mountains) = 2
    /\ geography.mountains[1] # geography.mountains[2]
    /\ \E p \in Pixels :
          /\ ridge_addition(p, geography.mountains[1]) > 0
          /\ ridge_addition(p, geography.mountains[2]) > 0
          /\ p \in ridge_window(geography.mountains[1])
          /\ p \in ridge_window(geography.mountains[2])
          /\ heightmap[p] = create_base_land_height(land_mask)[p]
                            + ridge_addition(p, geography.mountains[1])
                            + ridge_addition(p, geography.mountains[2])

\* One ridge on the base land height.  Widths of 15 and 30 units give
\* pad = 0 and 1, so that cells of the viewport lie outside the window;
\* one ridge has peak_height 0.
NarrowRidges ==
    { [points |-> l, peak_height |-> hw[1], width |-> hw[2]] :
      l \in RidgeLines, hw \in { <<20, 15>>, <<0, 30>>, <<35, 30>> } }

NarrowRidgeInit ==
    /\ pc = "depth_done" /\ k = 0 /\ error = "none" /\ scipy_available = TRUE
    /\ AuxIdle
    /\ geography \in { [NoGeography EXCEPT !.mountains = <<m>>] :
                         m \in Ridges \cup NarrowRidges }
    /\ land_mask \in SomeLandMasks
    /\ depth = mask_to_ocean([p \in Pixels |-> BaseDepth], land_mask)
    /\ heightmap = NoGrid /\ land_dist = NoGrid /\ ocean_dist = NoGrid /\ final = NoGrid
    /\ ProjIdle /\ ProvIdle

SpecNarrowRidge == NarrowRidgeInit /\ [][RidgeNext]_vars

\* The cell lies in the rows and columns of the polyline's vertices widened
\* by pad on every side.
InPaddedBox(ridge, cell) ==
    LET pts == ridge_pixel_pts(ridge)
        pad == ridge_pad(ridge)
    IN  /\ \E a, b \in 1..Len(pts) :
              pts[a][1] - pad <= cell[1] /\ cell[1] <= pts[b][1] + pad
        /\ \E a, b \in 1..Len(pts) :
              pts[a][2] - pad <= cell[2] /\ cell[2] <= pts[b][2] + pad

\* The cell lies on one of the polyline's segments: on the line through the
\* segment's ends and between them.
OnSegment(ridge, cell) ==
    LET pts == ridge_pixel_pts(ridge)
    IN  \E i \in 1..(Len(pts) - 1) :
            LET ax == pts[i][1]
                ay == pts[i][2]
                bx == pts[i + 1][1]
                by == pts[i + 1][2]
            IN  /\ (cell[1] - ax) * (by - ay) = (cell[2] - ay) * (bx - ax)
                /\ Min(ax, bx) <= cell[1] /\ cell[1] <= Max(ax, bx)
                /\ Min(ay, by) <= cell[2] /\ cell[2] <= Max(ay, by)

\* C30: a call of add_mountain_ridge_fast leaves the cells outside the
\* polyline's padded window as they were, adds between 0 and peak_height to
\* a cell inside it, adds peak_height to a cell on a segment of the polyline,
\* whose distance is 0 there and nowhere else, and adds 0 to every cell for
\* a polyline of one vertex.
C30_RidgeAddsWithinWindow ==
    [][ (pc = "ridges" /\ k < Len(geography.mountains)) =>
            LET ridge == geography.mountains[k + 1]
                pts == ridge_pixel_pts(ridge)
            IN  /\ \A p \in Pixels :
                      /\ ~InPaddedBox(ridge, p) => heightmap'[p] = heightmap[p]
                      /\ heightmap'[p] - heightmap[p] \in 0..(ridge.peak_height * ElevUnit)
                      /\ OnSegment(ridge, p) =>
                            heightmap'[p] - heightmap[p] = ridge.peak_height * ElevUnit
                      /\ Len(pts) > 1 =>
                            (OnSegment(ridge, p)
                                <=> ridge_min_dist_sq(p, pts, Len(pts) - 1)[1] = 0)
                /\ Len(pts) = 1 => heightmap' = heightmap ]_vars

\* A ridge of three vertices and positive height was added: a cell on one
\* of its segments gained the whole height, a cell of the window off the
\* segments less and more than 0, and a cell outside the window nothing.
C30_Witness ==
    /\ pc = "ridges"
    /\ k = 1
    /\ Len(geography.mountains[1].points) = 3
    /\ geography.mountains[1].peak_height > 0
    /\ \E p, q, r \in Pixels :
          LET ridge == geography.mountains[1]
              base == create_base_land_height(land_mask)
          IN  /\ OnSegment(ridge, p)
              /\ heightmap[p] = base[p] + ridge.peak_height * ElevUnit
              /\ InPaddedBox(ridge, q) /\ ~OnSegment(ridge, q)
              /\ heightmap[q] > base[q]
              /\ heightmap[q] < base[q] + ridge.peak_height * ElevUnit
              /\ ~InPaddedBox(ridge, r)
              /\ heightmap[r] = base[r]

\* ------------------------------------------------------------------------
\* generate_heightmap, step 5 without scipy: _manual_distance_transform
\* ------------------------------------------------------------------------
\* The import of scipy raises ImportError and the except branch calls
\* _manual_distance_transform(land_mask), then
\* _manual_distance_transform(1 - land_mask).  A ValueError raised by either
\* call is not caught by `except ImportError` and ends generate_heightmap.
distance_transforms_manual ==
    /\ pc = "ridges"
    /\ k = Len(geography.mountains)
    /\ ~scipy_available
    /\ IF manual_distance_raises(land_mask, 0)
       THEN /\ error' = "ValueError"
            /\ pc' = "failed"
            /\ UNCHANGED <<land_dist, ocean_dist>>
       ELSE /\ land_dist' \in manual_distance_blur(land_mask, 0)
            /\ IF manual_distance_raises(complement(land_mask), 1)
               THEN /\ error' = "ValueError"
                    /\ pc' = "failed"
                    /\ UNCHANGED ocean_dist
               ELSE /\ ocean_dist' \in manual_distance_blur(complement(land_mask), 1)
                    /\ pc' = "distances"
                    /\ UNCHANGED error
    /\ UNCHANGED <<k, envVars, projVars, land_mask, depth, heightmap, final, provVars>>

\* A run of generate_heightmap on an installation without scipy: one
\* landmass, at most one water body, one basin and one ridge.
FallbackInit ==
    /\ pc = "start" /\ k = 0 /\ error = "none" /\ scipy_available = FALSE
    /\ AuxIdle
    /\ geography \in
          { [NoGeography EXCEPT !.landmasses = <<a>>, !.water_bodies = w,
                                !.basins = b, !.mountains = m] :
            a \in SomeLandPolygons,
            w \in {<<>>} \cup { <<c>> : c \in WaterPolygons },
            b \in {<<>>} \cup { <<c>> : c \in { c \in Basins : c.depth = 18 } },
            m \in {<<>>} \cup { <<r>> : r \in { r \in Ridges : r.peak_height = 50 /\ r.width = 80 } } }
    /\ land_mask = NoGrid
    /\ ProjIdle /\ ElevIdle /\ ProvIdle

FallbackNext ==
    \/ create_land_mask
    \/ carve_water_bodies
    \/ begin_ocean_depth
    \/ blend_next_basin
    \/ mask_ocean_depth
    \/ base_land_height
    \/ add_next_ridge
    \/ distance_transforms_manual

SpecFallback == FallbackInit /\ [][FallbackNext]_vars

\* C10: without scipy, generate_heightmap takes the approximate distance
\* method and ends in no uncaught exception, whatever the land mask.
C10_FallbackNeverFails == ~scipy_available => error = "none"

\* ------------------------------------------------------------------------
\* generate_heightmap, step 5 with scipy: the distance transforms and the
\* coastal blend
\* ------------------------------------------------------------------------
SetMin(S) == CHOOSE m \in S : \A n \in S : m <= n

\* distance_transform_edt(mask), squared: the distance of a set cell to the
\* nearest cell that is not set, 0 on the cells that are not set.
distance_transform_edt(mask) ==
    [p \in DOMAIN mask |->
        IF mask[p] = 0 THEN 0
        ELSE SetMin({ dist_sq(p, q) : q \in { q \in DOMAIN mask : mask[q] = 0 } })]

\* The viewport with the ring of grid cells east and south of it.  The land
\* of a run lies inside the viewport, so every cell of the ring is ocean.
Ring == (0..(ViewN + 1)) \X (0..(ViewN + 1))

with_ocean_around(mask, cells) ==
    [p \in cells |-> IF p \in DOMAIN mask THEN mask[p] ELSE 0]

\* coastal_width = 6.0
coastal_width == 6

\* np.clip(dist / coastal_width, 0.0, 1.0) in 1/FP, from the squared distance.
coastal_factor(d2) ==
    IF d2 >= coastal_width * coastal_width THEN FP
    ELSE CHOOSE f \in 0..FP :
            /\ coastal_width * coastal_width * f * f <= d2 * FP * FP
            /\ d2 * FP * FP < coastal_width * coastal_width * (f + 1) * (f + 1)

\* A depth in 1/ElevUnit.
depth_as_elevation(d) == d \div (DepthUnit \div ElevUnit)

\* The threshold of main taken at COAST_HEIGHT.
threshold_at_coast_height(grid) ==
    [p \in DOMAIN grid |-> IF grid[p] > COAST_HEIGHT THEN 1 ELSE 0]

\* (heightmap > WATER_LEVEL).astype(np.uint8)
threshold_mask(grid) ==
    [p \in DOMAIN grid |-> IF grid[p] > WATER_LEVEL THEN 1 ELSE 0]

\* The blend with the coastal width of add_coastal_gradient, 8.
coastal_blend_width_8(m, h, d, land_d2, ocean_d2) ==
    LET f(d2) == IF d2 >= 64 THEN FP
                 ELSE CHOOSE g \in 0..FP :
                         64 * g * g <= d2 * FP * FP /\ d2 * FP * FP < 64 * (g + 1) * (g + 1)
    IN  IF m = 1
        THEN (h * f(land_d2) + COAST_HEIGHT * ElevUnit * (FP - f(land_d2))) \div FP
        ELSE (WATER_LEVEL * ElevUnit * (FP - f(ocean_d2))
              + depth_as_elevation(d) * f(ocean_d2)) \div FP

\* final = land_heights + ocean_heights at one cell: m the land mask, h the
\* heightmap, d the ocean depth, land_d2 and ocean_d2 the squared distances.
coastal_blend(m, h, d, land_d2, ocean_d2) ==
    LET land_factor == coastal_factor(land_d2)
        land_heights == IF m = 1
                        THEN (h * land_factor
                              + COAST_HEIGHT * ElevUnit * (FP - land_factor)) \div FP
                        ELSE 0
        ocean_factor == coastal_factor(ocean_d2)
        ocean_heights == IF m = 0
                         THEN (WATER_LEVEL * ElevUnit * (FP - ocean_factor)
                               + depth_as_elevation(d) * ocean_factor) \div FP
                         ELSE 0
    IN  land_heights + ocean_heights

\* ------------------------------------------------------------------------
\* generate_heightmap, step 6 with scipy: gaussian_filter(final, sigma=1.5)
\* ------------------------------------------------------------------------
\* The weights of the kernel at offsets 0..6 (radius int(4 * 1.5 + 0.5)), in
\* 1/GaussUnit: exp(-0.5 * (i / 1.5) ** 2), normalised.
GaussKernel == <<68, 55, 28, 9, 2, 0, 0>>

GaussRadius == Len(GaussKernel) - 1

RECURSIVE kernel_total(_)
kernel_total(i) ==
    IF i > GaussRadius THEN 0
    ELSE (IF i = 0 THEN 1 ELSE 2) * GaussKernel[i + 1] + kernel_total(i + 1)

GaussUnit == kernel_total(0)

\* mode="reflect" at the north and west edges of the grid.
reflect(i) == IF i < 0 THEN (0 - 1) - i ELSE i

\* Cell p moved by d along the axis (1 the columns, 2 the rows).
shifted(p, along, d) ==
    IF along = 1 THEN <<reflect(p[1] + d), p[2]>> ELSE <<p[1], reflect(p[2] + d)>>

RECURSIVE correlate_from(_, _, _, _)
correlate_from(field, p, along, d) ==
    IF d > GaussRadius THEN 0
    ELSE (IF GaussKernel[(IF d < 0 THEN 0 - d ELSE d) + 1] = 0 THEN 0
          ELSE GaussKernel[(IF d < 0 THEN 0 - d ELSE d) + 1] * field[shifted(p, along, d)])
         + correlate_from(field, p, along, d + 1)

\* One pass of the filter along an axis, at cell p, rounded.
correlate1d(field, p, along) ==
    (2 * correlate_from(field, p, along, 0 - GaussRadius) + GaussUnit) \div (2 * GaussUnit)

\* The cells the filter reads for the viewport: the viewport and the cells
\* within the kernel's radius east and south of it.
Halo == (0..(ViewN + GaussRadius)) \X (0..(ViewN + GaussRadius))

\* The combined field on an ocean cell p outside the viewport.
combined_outside(p, mask, basins) ==
    coastal_blend(0, 0, blend_basins([q \in {p} |-> BaseDepth], basins)[p], 0,
                  SetMin({ dist_sq(p, q) : q \in { q \in DOMAIN mask : mask[q] = 1 } }))

\* ------------------------------------------------------------------------
\* main: generate_heightmap with scipy, then generate_province_map
\* ------------------------------------------------------------------------
\* land_dist = distance_transform_edt(land_mask)
\* ocean_dist = distance_transform_edt(1 - land_mask)
distance_transforms ==
    /\ pc = "ridges"
    /\ k = Len(geography.mountains)
    /\ scipy_available
    /\ land_dist' = [p \in Pixels |->
                        distance_transform_edt(with_ocean_around(land_mask, Ring))[p]]
    /\ ocean_dist' = distance_transform_edt(complement(land_mask))
    /\ pc' = "distances"
    /\ UNCHANGED <<k, error, envVars, projVars, land_mask, depth, heightmap, final, provVars>>

\* land_factor ... final = land_heights + ocean_heights
coastal_gradient ==
    /\ pc = "distances"
    /\ final' = [p \in Pixels |->
                    coastal_blend(land_mask[p], heightmap[p], depth[p],
                                  land_dist[p], ocean_dist[p])]
    /\ pc' = "combined"
    /\ ident' = rebound({"final"})
    /\ UNCHANGED <<k, error, auxVars, projVars, land_mask, depth, heightmap,
                   land_dist, ocean_dist, provVars>>

\* final = gaussian_filter(final, sigma=1.5): the filter runs along the rows
\* axis, then along the columns axis.
gaussian_smoothing ==
    /\ pc = "combined"
    /\ scipy_available
    /\ \E whole \in { [p \in Halo |->
                         IF p \in Pixels THEN final[p]
                         ELSE combined_outside(p, land_mask, geography.basins)] } :
       \E by_rows \in { [p \in (0..(ViewN + GaussRadius)) \X (0..ViewN) |->
                           correlate1d(whole, p, 2)] } :
          final' = [p \in Pixels |-> correlate1d(by_rows, p, 1)]
    /\ pc' = "smoothed"
    /\ ident' = rebound({"final"})
    /\ UNCHANGED <<k, error, auxVars, projVars, land_mask, depth, heightmap,
                   land_dist, ocean_dist, provVars>>

\* save_heightmap(heightmap, heightmap_path): the array is written to the
\* file as it is.
\* A save that stretches the grid to the full range of the image.
save_heightmap_stretched ==
    /\ pc = "returned"
    /\ final' = [p \in DOMAIN final |-> (final[p] * 255) \div 127]
    /\ pc' = "saved"
    /\ ident' = rebound({"final"})
    /\ UNCHANGED <<k, error, auxVars, projVars, land_mask, depth, heightmap,
                   land_dist, ocean_dist, provVars>>

save_heightmap ==
    /\ pc = "returned"
    /\ pc' = "saved"
    /\ UNCHANGED <<k, error, envVars, projVars, land_mask, elevVars, provVars>>

\* land_mask = (heightmap > WATER_LEVEL).astype(np.uint8)
extract_land_mask ==
    /\ pc = "saved"
    /\ land_mask' = threshold_mask(final)
    /\ pc' = "prov_start"
    /\ ident' = rebound({"land_mask"})
    /\ UNCHANGED <<k, error, auxVars, projVars, elevVars, provVars>>

\* save_province_map(province_map, province_path); main returns.
save_province_map ==
    /\ pc = "prov_done"
    /\ pc' = "done"
    /\ UNCHANGED <<k, error, envVars, projVars, land_mask, elevVars, provVars>>

\* main is run a second time on the same geography; the grids of the first
\* run are kept for comparison.
run_again ==
    /\ pc = "done"
    /\ run = 1
    /\ first' = [final |-> final, province_map |-> province_map]
    /\ run' = 2
    /\ pc' = "start"
    /\ k' = 0
    /\ land_mask' = NoGrid
    /\ depth' = NoGrid /\ heightmap' = NoGrid /\ land_dist' = NoGrid
    /\ ocean_dist' = NoGrid /\ final' = NoGrid
    /\ empire_mask' = NoGrid /\ min_dist' = NoGrid /\ province_map' = NoGrid
    /\ ident' = [g \in GridNames |-> 0]
    /\ UNCHANGED <<error, scipy_available, geography, written, projVars>>

\* The ridges and basins of a run: none; a ridge and a basin with a target
\* above WATER_LEVEL; two overlapping basins.
PipelineTerrain ==
    { [mountains |-> <<>>, basins |-> <<>>],
      [mountains |->
          << [points |-> << Corner(0, 0, <<0, 0>>), Corner(2, 2, <<0, 0>>),
                            Corner(ViewN, 0, <<0, 0>>) >>,
              peak_height |-> 50, width |-> 80] >>,
       basins |->
          << [lon |-> Corner(1, 1, <<0, 0>>)[1], lat |-> Corner(1, 1, <<0, 0>>)[2],
              radius |-> 120, depth |-> 40] >>],
      [mountains |-> <<>>,
       basins |->
          << [lon |-> Corner(2, 2, <<29, 14>>)[1], lat |-> Corner(2, 2, <<29, 14>>)[2],
              radius |-> 60, depth |-> 5],
             [lon |-> Corner(0, ViewN, <<0, 0>>)[1], lat |-> Corner(0, ViewN, <<0, 0>>)[2],
              radius |-> 120, depth |-> 18] >>] }

\* One capital in cell <<1, 2>> or <<ViewN, ViewN>>, or the capitals in
\* cells <<0, 0>> and <<2, 0>>.
PipelineCapitals ==
    { [i \in 1..Len(sites) |-> [pid |-> i, lon |-> sites[i][1], lat |-> sites[i][2]]] :
      sites \in { << Corner(1, 2, <<0, 0>>) >>,
                  << Corner(ViewN, ViewN, <<29, 14>>) >>,
                  << Corner(0, 0, <<0, 0>>), Corner(2, 0, <<29, 14>>) >> } }

\* One square landmass inside the viewport, so that every other cell of the
\* grid is ocean; the empire boundary is the square itself, or the whole
\* viewport in the runs with basins and a single capital.
PipelineInit ==
    /\ pc = "start" /\ k = 0 /\ error = "none" /\ scipy_available = TRUE
    /\ AuxIdle
    /\ geography \in
          { g \in UNION { { [NoGeography EXCEPT !.landmasses = <<a>>, !.empire = e,
                                                !.capitals = c, !.mountains = t.mountains,
                                                !.basins = t.basins] :
                            e \in { <<a>>, << Rect(0, 0, ViewN + 1, ViewN + 1, <<0, 0>>) >> },
                            c \in PipelineCapitals, t \in PipelineTerrain } :
                          a \in AlignedSquares } :
              g.empire = g.landmasses <=> (g.basins = <<>> \/ Len(g.capitals) > 1) }
    /\ land_mask = NoGrid
    /\ ProjIdle /\ ElevIdle /\ ProvIdle

PipelineNext ==
    \/ create_land_mask
    \/ carve_water_bodies
    \/ begin_ocean_depth
    \/ blend_next_basin
    \/ mask_ocean_depth
    \/ base_land_height
    \/ add_next_ridge
    \/ distance_transforms
    \/ coastal_gradient
    \/ gaussian_smoothing
    \/ enforce_land_ocean
    \/ clamp_and_return
    \/ save_heightmap
    \/ extract_land_mask
    \/ begin_province_map
    \/ assign_capital
    \/ finish_province_map
    \/ save_province_map
    \/ run_again

SpecPipeline == PipelineInit /\ [][PipelineNext]_vars

\* The end-to-end case: one square landmass, no ridges, no basins, one
\* capital, and the empire boundary the square itself.
SquareOnly ==
    /\ geography.mountains = <<>>
    /\ geography.basins = <<>>
    /\ Len(geography.capitals) = 1
    /\ geography.empire = geography.landmasses

\* C11: in the end-to-end case the returned elevation grid reads above
\* WATER_LEVEL on every cell of the rasterized square and at most WATER_LEVEL
\* on every other cell, and the province map made from the thresholded grid
\* carries the capital's id on every cell of the square and 0 elsewhere.
C11_EndToEndSquare ==
    SquareOnly =>
        /\ pc \in {"returned", "saved"} =>
              \A p \in Pixels :
                  IF p \in filled_pixels(geography.landmasses[1])
                  THEN final[p] > WATER_LEVEL
                  ELSE final[p] <= WATER_LEVEL
        /\ pc \in {"prov_done", "done"} =>
              \A p \in Pixels :
                  IF p \in filled_pixels(geography.landmasses[1])
                  THEN province_map[p] = geography.capitals[1].pid
                  ELSE province_map[p] = 0

\* The end-to-end case has run to its end for a square of one row whose
\* cells the smoothing had pulled below sea level: they read WATER_LEVEL + 1
\* and carry the capital's id, and a cell beside them carries 0.
C11_Witness ==
    /\ SquareOnly
    /\ pc = "done"
    /\ \E p \in filled_pixels(geography.landmasses[1]) :
          /\ final[p] = WATER_LEVEL + 1
          /\ province_map[p] = 1
    /\ \E p \in Pixels : final[p] <= WATER_LEVEL /\ province_map[p] = 0

\* ------------------------------------------------------------------------
\* rasterize_polygon on polygons that leave the frame
\* ------------------------------------------------------------------------
\* Columns and rows around the north-west and the south-east corner of the
\* grid: before the first cell, on it, and behind the last one.
NearOrigin == {0 - 3, 0 - 1, 0, 2}
NearEnd == {WIDTH - 3, WIDTH - 1, WIDTH, WIDTH + 2}

ClusterRects(xs, ys, j) ==
    { Rect(q[1], q[2], q[3], q[4], j) :
      q \in { q \in xs \X ys \X xs \X ys : q[1] < q[3] /\ q[2] < q[4] } }

ClusterTriangles(xs, ys) ==
    { <<Corner(t[1][1], t[1][2], <<0, 0>>), Corner(t[2][1], t[2][2], <<0, 0>>),
        Corner(t[3][1], t[3][2], <<0, 0>>)>> :
      t \in { t \in (xs \X ys) \X (xs \X ys) \X (xs \X ys) :
                /\ t[1][1] < t[2][1]
                /\ t[2][1] <= t[3][1]
                /\ t[2] # t[3] /\ t[1][2] # t[3][2] } }

\* Polygons at the two corners, a band across the whole width, a column
\* along the whole west edge, and degenerate ones.
FramePolygons ==
    UNION { ClusterRects(c, c, j) : c \in {NearOrigin, NearEnd}, j \in Jitters }
    \cup ClusterTriangles(NearOrigin, NearOrigin)
    \cup ClusterTriangles(NearEnd, NearEnd)
    \cup { Rect(0 - 3, 0 - 1, WIDTH + 2, 2, <<0, 0>>),
           Rect(0 - 1, 0 - 3, 2, HEIGHT + 2, <<29, 14>>),
           <<>>,
           << Corner(0 - 1, 0 - 1, <<0, 0>>) >>,
           << Corner(0 - 1, 0 - 1, <<0, 0>>), Corner(WIDTH, 2, <<0, 0>>) >> }

\* One call rasterize_polygon(mask, polygon, 1) on a zero mask.
rasterize_call ==
    /\ pc = "raster_start"
    /\ written' = filled_pixels(geography.landmasses[1])
    /\ land_mask' = rasterize_polygon(land_mask, geography.landmasses[1], 1)
    /\ pc' = "raster_done"
    /\ UNCHANGED <<k, error, scipy_available, geography, run, first, ident, projVars,
                   elevVars, provVars>>

RasterInit ==
    /\ pc = "raster_start" /\ k = 0 /\ error = "none" /\ scipy_available = TRUE
    /\ AuxIdle
    /\ geography \in { [NoGeography EXCEPT !.landmasses = <<a>>] : a \in FramePolygons }
    /\ land_mask = ZeroGrid
    /\ ProjIdle /\ ElevIdle /\ ProvIdle

RasterNext == rasterize_call

\* The fill values of the float calls: the default 1.0, and 2.5.
FloatValues == {ElevUnit, (5 * ElevUnit) \div 2}

\* One call rasterize_polygon_float(arr, polygon, value) on a zero array,
\* for the polygon just given to rasterize_polygon.
rasterize_float_call ==
    /\ pc = "raster_done"
    /\ \E value \in FloatValues :
          final' = rasterize_polygon_float(ZeroGrid, geography.landmasses[1], value)
    /\ k' = Cardinality(float_filled_pixels(geography.landmasses[1]))
    /\ pc' = "float_done"
    /\ UNCHANGED <<error, land_mask, depth, heightmap, land_dist, ocean_dist, envVars,
                   projVars, provVars>>

RasterPairInit ==
    /\ pc = "raster_start" /\ k = 0 /\ error = "none" /\ scipy_available = TRUE
    /\ AuxIdle
    /\ geography \in { [NoGeography EXCEPT !.landmasses = <<a>>] :
                         a \in FramePolygons \cup LandPolygons }
    /\ land_mask = ZeroGrid
    /\ ProjIdle /\ ElevIdle /\ ProvIdle

RasterPairNext == rasterize_call \/ rasterize_float_call

SpecRasterPair == RasterPairInit /\ [][RasterPairNext]_vars

\* C28: after rasterize_polygon and rasterize_polygon_float were called with
\* the same polygon on zero arrays, the cells the float variant wrote are
\* the cells the integer variant wrote, and a cell of the mask holds the
\* integer value exactly where the float array holds the float value.
C28_SameCellsWritten ==
    pc = "float_done" =>
        /\ float_filled_pixels(geography.landmasses[1]) = written
        /\ \A p \in Pixels : land_mask[p] = 1 <=> final[p] \in FloatValues
        /\ \A p \in Pixels : land_mask[p] = 0 <=> final[p] = 0

\* Both variants have filled the U, whose rows have two spans, and cells of it.
C28_Witness ==
    /\ pc = "float_done"
    /\ Len(geography.landmasses[1]) = 8
    /\ written # {}
    /\ \E p \in Pixels : final[p] = (5 * ElevUnit) \div 2 /\ land_mask[p] = 1
    /\ \E p \in Pixels : final[p] = 0

\* One landmass, filled first, and one polygon drawn over it with 0: a
\* cut-out, a polygon at a corner of the frame or leaving it, one that is
\* not convex, a degenerate one or one without vertices.
OverdrawInit ==
    /\ pc = "start" /\ k = 0 /\ error = "none" /\ scipy_available = TRUE
    /\ AuxIdle
    /\ geography \in { [NoGeography EXCEPT !.landmasses = <<a>>, !.water_bodies = <<b>>] :
                       a \in SomeLandPolygons \cup OddPolygons,
                       b \in FramePolygons \cup OddPolygons \cup WaterPolygons }
    /\ land_mask = NoGrid
    /\ ProjIdle /\ ElevIdle /\ ProvIdle

SpecOverdraw == OverdrawInit /\ [][MaskNext]_vars

\* The cell lies in the polygon's bounding box clamped to the grid and, in
\* its row, between an odd-numbered sorted intersection and the next one.
OnFilledSpan(polygon, cell) ==
    /\ polygon # <<>>
    /\ LET pp == polygon_to_pixel_coords(polygon)
           xs == intersections(pp, cell[2])
       IN  /\ cell[1] \in 0..(WIDTH - 1) /\ cell[2] \in 0..(HEIGHT - 1)
           /\ \E a, b \in 1..Len(pp) : pp[a][1] <= cell[1] /\ cell[1] <= pp[b][1]
           /\ \E a, b \in 1..Len(pp) : pp[a][2] <= cell[2] /\ cell[2] <= pp[b][2]
           /\ \E e \in 1..(Len(xs) - 1) :
                 /\ e % 2 = 1
                 /\ xs[e][1] <= cell[1] * xs[e][2]
                 /\ cell[1] * xs[e + 1][2] <= xs[e + 1][1]

\* C29: a call of rasterize_polygon changes a cell only if the cell lies in
\* the polygon's clamped bounding box on a filled span, the changed cell
\* then holding the value; every other cell keeps its value, and a polygon
\* without vertices changes no cell.
C29_OnlySpanCellsChange ==
    [][ /\ pc = "start" =>
            \A p \in Pixels :
                land_mask'[p] # 0 =>
                    land_mask'[p] = 1 /\ OnFilledSpan(geography.landmasses[1], p)
        /\ pc = "filled" =>
            /\ \A p \in Pixels :
                  land_mask'[p] # land_mask[p] =>
                      land_mask'[p] = 0 /\ OnFilledSpan(geography.water_bodies[1], p)
            /\ geography.water_bodies[1] = <<>> => land_mask' = land_mask
            /\ \A c \in filled_pixels(geography.water_bodies[1]) :
                  OnFilledSpan(geography.water_bodies[1], c) ]_vars

\* A polygon was drawn with 0 over the filled landmass: cells on its spans
\* are 0 now, and cells of the landmass off its spans still hold 1.
C29_Witness ==
    /\ pc = "carved"
    /\ \E p \in Pixels :
          /\ p \in filled_pixels(geography.landmasses[1])
          /\ p \in filled_pixels(geography.water_bodies[1])
          /\ land_mask[p] = 0
    /\ \E p \in Pixels :
          /\ p \notin filled_pixels(geography.water_bodies[1])
          /\ land_mask[p] = 1

SpecRaster == RasterInit /\ [][RasterNext]_vars

\* C12: a call of rasterize_polygon ends without an error and has assigned
\* only cells of columns 0..WIDTH-1 and rows 0..HEIGHT-1, also for a polygon
\* with vertices outside the frame; the projector gives such a vertex its
\* index unclamped: WIDTH for LON_MAX, HEIGHT for LAT_MIN, a negative index
\* a cell or more west of LON_MIN or north of LAT_MAX.
C12_WritesStayInFrame ==
    pc = "raster_done" =>
        /\ error = "none"
        /\ \A c \in written : c[1] \in 0..(WIDTH - 1) /\ c[2] \in 0..(HEIGHT - 1)
        /\ \A p \in Pixels : land_mask[p] = 1 <=> p \in written
        /\ \A i \in 1..Len(geography.landmasses[1]) :
              LET v == geography.landmasses[1][i]
                  xy == lonlat_to_xy(v[1], v[2])
              IN  /\ v[1] = LON_MAX => xy[1] = WIDTH
                  /\ v[2] = LAT_MIN => xy[2] = HEIGHT
                  /\ v[1] <= LON_MIN - LON_RANGE \div WIDTH => xy[1] < 0
                  /\ v[2] >= LAT_MAX + LAT_RANGE \div HEIGHT => xy[2] < 0

\* A band with vertices west of column 0 and east of the last column was
\* rasterized: the first and the last cell of row 0 are assigned.
C12_Witness ==
    /\ pc = "raster_done"
    /\ \E i \in 1..Len(geography.landmasses[1]) :
          lon_to_x(geography.landmasses[1][i][1]) < 0
    /\ \E i \in 1..Len(geography.landmasses[1]) :
          lon_to_x(geography.landmasses[1][i][1]) > WIDTH
    /\ <<0, 0>> \in written
    /\ <<WIDTH - 1, 0>> \in written

\* ------------------------------------------------------------------------
\* Projector: an angle is converted to a pixel index
\* ------------------------------------------------------------------------
\* Angles up to two cells on either side of LON_MIN and of LAT_MAX, and up
\* to a cell on either side of LON_MAX and of LAT_MIN.
AngleInit ==
    /\ pc = "angle" /\ k = 0 /\ error = "none" /\ scipy_available = TRUE
    /\ AuxIdle
    /\ geography = NoGeography
    /\ axis \in {"x", "y"}
    /\ pix = NoValue
    /\ deg \in IF axis = "x"
               THEN ((LON_MIN - 2 * (LON_RANGE \div WIDTH))..(LON_MIN + 2 * (LON_RANGE \div WIDTH)))
                    \cup ((LON_MAX - LON_RANGE \div WIDTH)..(LON_MAX + LON_RANGE \div WIDTH))
               ELSE ((LAT_MAX - 2 * (LAT_RANGE \div HEIGHT))..(LAT_MAX + 2 * (LAT_RANGE \div HEIGHT)))
                    \cup ((LAT_MIN - LAT_RANGE \div HEIGHT)..(LAT_MIN + LAT_RANGE \div HEIGHT))
    /\ back = NoValue
    /\ land_mask = NoGrid /\ ElevIdle /\ ProvIdle

AngleNext == ToPixel

SpecAngle == AngleInit /\ [][AngleNext]_vars

\* C13: for every longitude and latitude, also outside the bounding
\* rectangle, lon_to_x returns floor((lon - LON_MIN) / LON_RANGE * WIDTH) and
\* lat_to_y returns floor((LAT_MAX - lat) / LAT_RANGE * HEIGHT).
C13_FloorOfScaledOffset ==
    pc = "back" =>
        back = IF axis = "x"
               THEN FloorDiv((deg - LON_MIN) * WIDTH, LON_RANGE)
               ELSE FloorDiv((LAT_MAX - deg) * HEIGHT, LAT_RANGE)

\* The land/sea elevation invariant on a field in 1/ElevUnit: land cells at
\* WATER_LEVEL + 1 or above, ocean cells at WATER_LEVEL or below.
LandSeaInvariant(field, mask) ==
    \A p \in Pixels :
        /\ mask[p] = 1 => field[p] >= (WATER_LEVEL + 1) * ElevUnit
        /\ mask[p] = 0 => field[p] <= WATER_LEVEL * ElevUnit

\* C14: the invariant is enforced twice: the combined field that the
\* smoothing is given has it enforced, and the field has it enforced again
\* after the smoothing.
C14_EnforcedBeforeAndAfterSmoothing ==
    /\ pc = "combined" => LandSeaInvariant(final, land_mask)
    /\ pc = "enforced" => LandSeaInvariant(final, land_mask)

cell_lonlat(p) ==
    <<x_to_lon(p[1]) + LON_RANGE \div (2 * WIDTH),
      y_to_lat(p[2]) - LAT_RANGE \div (2 * HEIGHT)>>

\* "Euclidean in lon/lat space": the squared distance in degrees between
\* cell p and a capital of the list.
lonlat_dist_sq(p, capital) ==
    LET a == cell_lonlat(p)
    IN  (a[1] - capital.lon) * (a[1] - capital.lon)
          + (a[2] - capital.lat) * (a[2] - capital.lat)

\* C16: in the returned map every assignable cell carries the id of a
\* capital that is nearest to it in degrees of longitude and latitude
\* (for a list that holds a capital).
C16_NearestInDegrees ==
    (pc = "prov_done" /\ geography.capitals # <<>>) =>
        \A p \in Pixels :
            (land_mask[p] = 1 /\ empire_mask[p] = 1) =>
                \E i \in 1..Len(geography.capitals) :
                    /\ geography.capitals[i].pid = province_map[p]
                    /\ \A j \in 1..Len(geography.capitals) :
                          lonlat_dist_sq(p, geography.capitals[i])
                              <= lonlat_dist_sq(p, geography.capitals[j])

\* ------------------------------------------------------------------------
\* create_land_mask and carve_water_bodies on lists of polygons
\* ------------------------------------------------------------------------
MaxPolygons == 2

\* Landmasses that overlap one another, one that is apart, and a triangle.
ListLandPolygons ==
    { Rect(0, 0, 2, 2, <<0, 0>>), Rect(1, 1, ViewN, ViewN, <<0, 0>>),
      Rect(2, 0, ViewN, 1, <<29, 14>>),
      <<Corner(0, 0, <<0, 0>>), Corner(ViewN, 0, <<0, 0>>), Corner(0, ViewN, <<0, 0>>)>> }

\* Cut-outs inside, across and outside the landmasses.
ListWaterPolygons ==
    { Rect(1, 1, 2, 2, <<0, 0>>), Rect(0, 1, ViewN, 2, <<0, 0>>),
      <<Corner(1, 0, <<29, 14>>), Corner(ViewN, 0, <<29, 14>>), Corner(ViewN, 2, <<29, 14>>)>> }

MaskListInit ==
    /\ pc = "start" /\ k = 0 /\ error = "none" /\ scipy_available = TRUE
    /\ AuxIdle
    /\ geography \in { [NoGeography EXCEPT !.landmasses = a, !.water_bodies = b] :
                       a \in SeqsUpTo(ListLandPolygons, MaxPolygons),
                       b \in SeqsUpTo(ListWaterPolygons, MaxPolygons) }
    /\ land_mask = NoGrid
    /\ ProjIdle /\ ElevIdle /\ ProvIdle

SpecMaskList == MaskListInit /\ [][MaskNext]_vars

\* The cells filled by at least one polygon of a list.
filled_by_any(polygons) ==
    UNION { filled_pixels(polygons[i]) : i \in 1..Len(polygons) }

\* C17: after the landmasses were filled and then the cut-outs carved, every
\* cell holds 0 or 1, and 1 exactly when a landmass fills it and no cut-out
\* does.
C17_LandMinusCutouts ==
    pc = "carved" =>
        \A p \in Pixels :
            /\ land_mask[p] \in {0, 1}
            /\ land_mask[p] = 1 <=>
                  /\ p \in filled_by_any(geography.landmasses)
                  /\ p \notin filled_by_any(geography.water_bodies)

\* Two landmasses and two cut-outs were applied; a cell filled by both
\* landmasses stays 1, a cell that the last landmass fills and a cut-out
\* carves is 0, and a cell of the first landmass alone is 1.
C17_Witness ==
    /\ pc = "carved"
    /\ Len(geography.landmasses) = 2 /\ Len(geography.water_bodies) = 2
    /\ \E p \in Pixels :
          /\ p \in filled_pixels(geography.landmasses[1])
          /\ p \in filled_pixels(geography.landmasses[2])
          /\ land_mask[p] = 1
    /\ \E p \in Pixels :
          /\ p \in filled_pixels(geography.landmasses[2])
          /\ p \in filled_by_any(geography.water_bodies)
          /\ land_mask[p] = 0
    /\ \E p \in Pixels :
          /\ p \in filled_pixels(geography.landmasses[1])
          /\ p \notin filled_pixels(geography.landmasses[2])
          /\ land_mask[p] = 1

\* The positions of a run of main, in program order.
Stages ==
    << "start", "filled", "carved", "basins", "depth_done", "ridges", "distances",
       "combined", "smoothed", "enforced", "returned", "saved", "prov_start",
       "capitals", "prov_done", "done" >>

StageOf(position) == CHOOSE i \in 1..Len(Stages) : Stages[i] = position

\* C18: within a run the stages follow one another in program order: the
\* land mask is written first, the depth field next, then the land height
\* (base, then ridges), then the combined field by blend, smoothing,
\* enforcement and clamp; once the clamped grid is returned no step changes
\* a cell of it.
C18_StagesInOrder ==
    [][ run' = run =>
          /\ StageOf(pc') \in {StageOf(pc), StageOf(pc) + 1}
          /\ land_mask' # land_mask => pc \in {"start", "filled", "saved"}
          /\ depth' # depth => pc \in {"carved", "basins"}
          /\ heightmap' # heightmap => pc \in {"depth_done", "ridges"}
          /\ final' # final => pc \in {"distances", "combined", "smoothed", "enforced"}
          /\ StageOf(pc) >= StageOf("returned") => final' = final
          /\ pc' = "returned" => final' = clip_to_uint8(final) ]_vars

\* The first run has ended with both files saved; a ridge and a basin went
\* into a grid of bytes that holds land above the floor and ocean.
C18_Witness ==
    /\ pc = "done" /\ run = 1
    /\ geography.mountains # <<>> /\ geography.basins # <<>>
    /\ \A p \in Pixels : final[p] \in 0..127
    /\ \E p \in Pixels : final[p] > WATER_LEVEL + 1
    /\ \E p \in Pixels : final[p] < WATER_LEVEL

\* ------------------------------------------------------------------------
\* The coastal blend at every distance from a coast
\* ------------------------------------------------------------------------
\* How far past the coastal width the coasts are drawn.
BeyondWidth == 2

\* The viewport with the cells east and south of it that hold the land of a
\* block and the ocean next to it.
Surroundings ==
    (0..(ViewN + coastal_width + BeyondWidth + 1))
        \X (0..(ViewN + coastal_width + BeyondWidth + 1))

\* A block of land west of the coast at column c, and one east of it; both
\* reach south past the viewport by more than the coastal width.
LandBlocks ==
    UNION { { Rect(0, 0, c, ViewN + coastal_width + BeyondWidth, <<0, 0>>),
              Rect(c, 0, ViewN + coastal_width + BeyondWidth,
                   ViewN + coastal_width + BeyondWidth, <<0, 0>>) } :
            c \in 1..(ViewN + coastal_width + BeyondWidth - 1) }

\* The land mask of create_land_mask on the cells of a window.
land_mask_on(cells, landmasses) ==
    LET filled == filled_by_any(landmasses)
    IN  [p \in cells |-> IF p \in filled THEN 1 ELSE 0]

\* generate_heightmap has computed the distance transforms for a block of
\* land with the terrain of a run.
BlendInit ==
    /\ pc = "distances" /\ k = 0 /\ error = "none" /\ scipy_available = TRUE
    /\ AuxIdle
    /\ geography \in { [NoGeography EXCEPT !.landmasses = <<a>>,
                                           !.mountains = t.mountains,
                                           !.basins = t.basins] :
                       a \in LandBlocks, t \in PipelineTerrain }
    /\ land_mask = land_mask_on(Pixels, geography.landmasses)
    /\ depth = mask_to_ocean(blend_basins([p \in Pixels |-> BaseDepth], geography.basins),
                             land_mask)
    /\ heightmap = add_mountains(create_base_land_height(land_mask), geography.mountains)
    /\ \E around \in { land_mask_on(Surroundings, geography.landmasses) } :
          /\ land_dist = [p \in Pixels |-> distance_transform_edt(around)[p]]
          /\ ocean_dist = [p \in Pixels |-> distance_transform_edt(complement(around))[p]]
    /\ final = NoGrid
    /\ ProjIdle /\ ProvIdle

BlendNext == coastal_gradient

SpecBlend == BlendInit /\ [][BlendNext]_vars

\* C19: in the combined field a land cell at distance d from the coast holds
\* COAST_HEIGHT + (h - COAST_HEIGHT) * min(1, d / 6), which is h itself from
\* d = 6 on, and an ocean cell WATER_LEVEL + (depth - WATER_LEVEL) * min(1, d / 6),
\* which is the depth itself from d = 6 on; the field of the other class
\* adds nothing to the cell.
C19_RampOfOwnClass ==
    pc = "combined" =>
        \A p \in Pixels :
            IF land_mask[p] = 1
            THEN /\ final[p] = COAST_HEIGHT * ElevUnit
                                 + ((heightmap[p] - COAST_HEIGHT * ElevUnit)
                                      * coastal_factor(land_dist[p])) \div FP
                 /\ land_dist[p] >= 6 * 6 => final[p] = heightmap[p]
                 /\ land_dist[p] < 6 * 6 =>
                       (heightmap[p] > COAST_HEIGHT * ElevUnit + FP => final[p] < heightmap[p])
            ELSE /\ final[p] = WATER_LEVEL * ElevUnit
                                 + ((depth_as_elevation(depth[p]) - WATER_LEVEL * ElevUnit)
                                      * coastal_factor(ocean_dist[p])) \div FP
                 /\ ocean_dist[p] >= 6 * 6 => final[p] = depth_as_elevation(depth[p])
                 /\ ocean_dist[p] < 6 * 6 =>
                       (depth_as_elevation(depth[p]) < WATER_LEVEL * ElevUnit - FP
                            => final[p] > depth_as_elevation(depth[p]))

\* The field was combined for a coast with land cells nearer than 6, at 6
\* and farther than 6 from it, the far ones holding their ridge height, and
\* the near ones a height between COAST_HEIGHT and theirs.
C19_Witness ==
    /\ pc = "combined"
    /\ geography.mountains # <<>>
    /\ \E p \in Pixels :
          land_mask[p] = 1 /\ land_dist[p] = 6 * 6 /\ final[p] = heightmap[p]
    /\ \E p \in Pixels :
          /\ land_mask[p] = 1 /\ land_dist[p] > 6 * 6
          /\ final[p] = heightmap[p] /\ final[p] > (LAND_BASE + 2) * ElevUnit
    /\ \E p \in Pixels :
          /\ land_mask[p] = 1 /\ land_dist[p] = 5 * 5
          /\ final[p] > COAST_HEIGHT * ElevUnit /\ final[p] < heightmap[p]

\* The depth field after the first n basins of the list, before any mask.
depth_after(n) ==
    blend_basins([p \in Pixels |-> BaseDepth], SubSeq(geography.basins, 1, n))

\* C20: while the basins are applied no cell is zeroed: land and ocean cells
\* alike hold the fold of the basins applied so far; the returned field is 0
\* on every land cell and the fold of the whole list on every ocean cell.
C20_ZeroedOnLandAfterAllBasins ==
    /\ pc = "basins" =>
          \E fold \in {depth_after(k)} :
              \A p \in Pixels : depth[p] = fold[p] /\ depth[p] > 0
    /\ pc = "depth_done" =>
          \E fold \in {depth_after(Len(geography.basins))} :
              \A p \in Pixels :
                  /\ land_mask[p] = 1 => depth[p] = 0
                  /\ land_mask[p] = 0 => depth[p] = fold[p]

\* The field was returned for two basins; a land cell that both had pulled
\* off the base value is 0, and an ocean cell holds a blended value.
C20_Witness ==
    /\ pc = "depth_done"
    /\ Len(geography.basins) = 2
    /\ \E p \in Pixels :
          /\ land_mask[p] = 1
          /\ depth_after(1)[p] # BaseDepth
          /\ depth_after(2)[p] # depth_after(1)[p]
          /\ depth[p] = 0
    /\ \E p \in Pixels :
          /\ land_mask[p] = 0
          /\ depth[p] # BaseDepth /\ depth[p] > 0

\* C21: whatever the mask, a call of _manual_distance_transform leaves its
\* loop and returns the blur approximation: once generate_heightmap is past
\* its two calls, both distance fields are fields within [0, 10].
C21_LoopFallsThroughToBlur ==
    (~scipy_available /\ pc \in {"failed", "distances"}) =>
        /\ pc = "distances"
        /\ \A p \in Pixels :
              /\ land_dist[p] \in 0..(10 * ElevUnit)
              /\ ocean_dist[p] \in 0..(10 * ElevUnit)

\* The array each name is bound to.
GridOf ==
    [land_mask |-> land_mask, depth |-> depth, heightmap |-> heightmap,
     final |-> final, province_map |-> province_map]

\* From carve_water_bodies' return to the re-enforcement, and inside
\* generate_province_map, no step changes the land mask.
LandMaskKept ==
    /\ pc \in {"carved", "basins", "depth_done", "ridges", "distances", "combined",
               "smoothed"} => land_mask' = land_mask
    /\ pc \in {"prov_start", "capitals"} => land_mask' = land_mask

\* C22 as stated: the land mask is kept, and an array is changed in place
\* only by a fill on the mask being built or by a ridge addition on the
\* height field.
C22_OnlyFillsAndRidgesInPlace ==
    [][ run' = run =>
          /\ LandMaskKept
          /\ \A g \in GridNames :
                (GridOf'[g] # GridOf[g] /\ ident'[g] = ident[g]) =>
                    \/ g = "land_mask" /\ pc = "filled"
                    \/ g = "heightmap" /\ pc = "ridges" ]_vars

\* C22, amended: the land mask is kept, and an array is changed in place only
\* by the stage that builds it: a fill on the mask, a basin blend on the
\* depth field inside create_ocean_depth, a ridge addition on the height
\* field.
C22_InPlaceOnlyOnOwnGrid ==
    [][ run' = run =>
          /\ LandMaskKept
          /\ \A g \in GridNames :
                (GridOf'[g] # GridOf[g] /\ ident'[g] = ident[g]) =>
                    \/ g = "land_mask" /\ pc = "filled"
                    \/ g = "depth" /\ pc = "basins"
                    \/ g = "heightmap" /\ pc = "ridges" ]_vars

\* The ridges were added: the height field is still the array that
\* create_base_land_height returned but no longer holds its values, the depth
\* name was bound twice and its first array blended in between, and the
\* land mask is the one the polygons gave.
C22_Witness ==
    /\ pc = "ridges"
    /\ geography.mountains # <<>> /\ k = Len(geography.mountains)
    /\ geography.basins # <<>>
    /\ ident["heightmap"] = 1
    /\ heightmap # create_base_land_height(land_mask)
    /\ ident["depth"] = 2
    /\ depth_after(1) # [p \in Pixels |-> BaseDepth]
    /\ ident["land_mask"] = 1
    /\ land_mask = rasterize_all(rasterize_all(ZeroGrid, geography.landmasses, 1),
                                 geography.water_bodies, 0)
    /\ \E p \in Pixels : land_mask[p] = 1

\* The land mask of generate_heightmap: the landmasses filled, the water
\* bodies carved.
polygon_land_mask ==
    rasterize_all(rasterize_all(ZeroGrid, geography.landmasses, 1),
                  geography.water_bodies, 0)

\* C23: the mask that main takes from the returned grid by heightmap >
\* WATER_LEVEL is, cell for cell, the land mask that generate_heightmap built
\* from the polygons.
C23_ThresholdGivesPolygonMask ==
    /\ pc \in {"returned", "saved"} =>
          land_mask = polygon_land_mask /\ threshold_mask(final) = land_mask
    /\ pc \in {"prov_start", "capitals", "prov_done", "done"} =>
          land_mask = polygon_land_mask

\* main has taken the threshold of a grid with a basin in it: a land cell
\* that reads exactly WATER_LEVEL + 1 is land in the mask, an ocean cell that
\* reads exactly WATER_LEVEL is ocean.
C23_Witness ==
    /\ pc = "prov_start"
    /\ geography.basins # <<>>
    /\ \E p \in Pixels :
          final[p] = WATER_LEVEL + 1 /\ land_mask[p] = 1 /\ polygon_land_mask[p] = 1
    /\ \E p \in Pixels :
          final[p] = WATER_LEVEL /\ land_mask[p] = 0 /\ polygon_land_mask[p] = 0

\* C24: for the basin just applied, if its r_pixels is at least 1, every
\* cell of its window lies within 2 * r_pixels of the centre in x and in y,
\* its squared normalized distance is at most 8, its influence passes the
\* guard influence > 0.01, and the cell holds the blend of its previous value.
C24_WholeWindowBlended ==
    (pc = "basins" /\ k >= 1 /\ basin_r_pixels(geography.basins[k]) >= 1) =>
        LET b == geography.basins[k]
            r == basin_r_pixels(b)
            c == basin_center(b)
        IN  \E before \in {depth_after(k - 1)} :
                \A p \in basin_window(b) :
                    /\ c[1] - 2 * r <= p[1] /\ p[1] <= c[1] + 2 * r
                    /\ c[2] - 2 * r <= p[2] /\ p[2] <= c[2] + 2 * r
                    /\ basin_dist_sq(p, b) <= 8 * r * r
                    /\ influence_counts(basin_influence(p, b))
                    /\ p \in Pixels =>
                          depth[p] = blend_depth(before[p], b.depth, basin_influence(p, b))

\* A basin was applied whose window has its far corner, at squared
\* normalized distance 8, on a cell of the viewport, and that cell was
\* pulled off its previous value.
C24_Witness ==
    /\ pc = "basins" /\ k >= 1
    /\ basin_r_pixels(geography.basins[k]) >= 1
    /\ \E p \in basin_window(geography.basins[k]) \cap Pixels :
          /\ basin_dist_sq(p, geography.basins[k])
                = 8 * basin_r_pixels(geography.basins[k]) * basin_r_pixels(geography.basins[k])
          /\ depth[p] # depth_after(k - 1)[p]

\* The ids of the capital list.
capital_ids == { geography.capitals[i].pid : i \in 1..Len(geography.capitals) }

\* C25: for a list that holds a capital, every assignable cell of the
\* returned map carries the id of a capital, which is not 0; a cell that
\* carries 0 is not assignable.
C25_AssignableCarriesCapitalId ==
    (pc = "prov_done" /\ geography.capitals # <<>>) =>
        /\ 0 \notin capital_ids
        /\ \A p \in Pixels :
              /\ (land_mask[p] = 1 /\ empire_mask[p] = 1) => province_map[p] \in capital_ids
              /\ province_map[p] = 0 => (land_mask[p] = 0 \/ empire_mask[p] = 0)

\* The map was returned for a single capital that lies west of the frame:
\* the assignable cells, however far, carry its id, and another cell 0.
C25_Witness ==
    /\ pc = "prov_done"
    /\ Len(geography.capitals) = 1
    /\ CapitalCells[1].xy \notin Pixels
    /\ \E p \in Pixels :
          /\ land_mask[p] = 1 /\ empire_mask[p] = 1
          /\ p[1] = ViewN
          /\ province_map[p] = geography.capitals[1].pid
    /\ \E p \in Pixels : province_map[p] = 0

\* The pixel polygon of the landmass that was filled.
FilledPoly == polygon_to_pixel_coords(geography.landmasses[1])

\* C26: for the polygon that was filled, every row of its bounding box has
\* an even number of x-intersections, so the pairs of the fill loop use all
\* of them; an edge between two vertices of the same row passes the test on
\* no row; and a row through a vertex counts the two edges at that vertex
\* once together when they continue up or down and zero or two times when
\* they turn back.
C26_EvenIntersections ==
    pc = "filled" =>
        /\ \A y \in bbox_y_min(FilledPoly)..bbox_y_max(FilledPoly) :
              /\ Len(intersections(FilledPoly, y)) % 2 = 0
              /\ \A i \in 1..Len(FilledPoly) :
                    LET n == IF i = Len(FilledPoly) THEN 1 ELSE i + 1
                        before == FilledPoly[PrevVertex(FilledPoly, i)][2]
                        after == FilledPoly[n][2]
                        hits == Cardinality({ e \in {i, n} : EdgeCrosses(FilledPoly, e, y) })
                    IN  (FilledPoly[i][2] = y /\ Len(FilledPoly) >= 3) =>
                            /\ (before < y /\ y < after) \/ (after < y /\ y < before) => hits = 1
                            /\ (before < y /\ after < y) => hits = 0
                            /\ (before > y /\ after > y) => hits = 2
        /\ \A i \in 1..Len(FilledPoly) :
              FilledPoly[i][2] = FilledPoly[PrevVertex(FilledPoly, i)][2] =>
                  \A y \in bbox_y_min(FilledPoly)..bbox_y_max(FilledPoly) :
                      ~EdgeCrosses(FilledPoly, i, y)

\* A U was filled: a row across its arms has four intersections, the row
\* through the two vertices at the bottom of its notch has two, and its
\* horizontal edges gave none.
C26_Witness ==
    /\ pc = "filled"
    /\ Len(FilledPoly) = 8
    /\ \E y \in 0..ViewN : Len(intersections(FilledPoly, y)) = 4
    /\ \E y \in 0..ViewN :
          /\ Len(intersections(FilledPoly, y)) = 2
          /\ \E i \in 1..8 : FilledPoly[i][2] = y
    /\ \E i \in 1..8 : FilledPoly[i][2] = FilledPoly[PrevVertex(FilledPoly, i)][2]

\* The base depth and the targets of the first n basins.
depths_so_far(n) == {BaseDepth} \cup { geography.basins[i].depth * DepthUnit : i \in 1..n }

\* After the first k basins every cell lies between the least and the
\* greatest of the base depth and the targets applied so far.
WithinDepthsSoFar ==
    \A p \in Pixels :
        /\ \E low \in depths_so_far(k) : low <= depth[p]
        /\ \E high \in depths_so_far(k) : depth[p] <= high

\* C27: after the first k basins every cell lies within the depths so far,
\* and the cell at the centre of the basin just applied holds that basin's
\* target.
C27_CentreHoldsTarget ==
    pc = "basins" =>
        /\ WithinDepthsSoFar
        /\ (k >= 1 /\ basin_center(geography.basins[k]) \in Pixels) =>
              depth[basin_center(geography.basins[k])]
                  = geography.basins[k].depth * DepthUnit

====
